---- MODULE Spec2Model ----
(***************************************************************************)
(* Cross-document verification engine of the document verification system. *)
(*                                                                         *)
(* The model follows DocumentVerificationPipeline.process_person           *)
(* (run_pipeline.py): the per-document extractions are collected into      *)
(* extracted_data, verify_person (verifier/verify/rules.py) evaluates the  *)
(* seven rules, and process_person derives the person's overall status.    *)
(*                                                                         *)
(* Python values are tagged records: None, str (a sequence of one-char     *)
(* strings), int and dict (a function from keys to values).  A Python      *)
(* exception leaving a function is the field exc of its outcome.           *)
(***************************************************************************)
EXTENDS Integers, Sequences, FiniteSets, TLC

VARIABLES
    extracted_data,        \* process_person: {doc_type: {field: entry}} collected so far
    pc,                    \* process_person: "extract" while collecting, then "done"
    verification_results,  \* process_person: what verify_person returned, {} on exception
    overall_status,        \* process_person: the status reported for the person
    verify_log,            \* verify_person: the overall status it computed and logged
    verify_error,          \* process_person: the exception verify_person ended in
    call                   \* the last call of a field normalizer: fn, arg, out

vars == <<extracted_data, pc, verification_results, overall_status, verify_log,
          verify_error, call>>

-----------------------------------------------------------------------------
(* Python values *)

PyNone == [t |-> "none"]

PyStr(s) == [t |-> "str", s |-> s]

PyInt(n) == [t |-> "int", n |-> n]

PyDict(d) == [t |-> "dict", d |-> d]

EmptyDict == PyDict(<<>>)

\* bool(v): None, "", 0 and {} are falsy
Truthy(v) ==
    CASE v.t = "none" -> FALSE
      [] v.t = "str"  -> v.s # <<>>
      [] v.t = "int"  -> v.n # 0
      [] v.t = "dict" -> DOMAIN v.d # {}

\* d.get(key, default) on a dict d
DictGet(d, key, default) == IF key \in DOMAIN d.d THEN d.d[key] ELSE default

-----------------------------------------------------------------------------
(* Characters and the str methods the rules use *)

UpperChars == <<"A", "B", "C", "D", "E", "F", "G", "H", "I", "J", "K", "L", "M",
                "N", "O", "P", "Q", "R", "S", "T", "U", "V", "W", "X", "Y", "Z">>

LowerChars == <<"a", "b", "c", "d", "e", "f", "g", "h", "i", "j", "k", "l", "m",
                "n", "o", "p", "q", "r", "s", "t", "u", "v", "w", "x", "y", "z">>

DigitChars == <<"0", "1", "2", "3", "4", "5", "6", "7", "8", "9">>

\* the characters of the inputs, in code-point order
Alphabet == <<" ", "+", ",", "-", ".", "/">> \o DigitChars \o <<"@">>
            \o UpperChars \o LowerChars

Range(s) == {s[i] : i \in DOMAIN s}

Ord(c) == CHOOSE i \in DOMAIN Alphabet : Alphabet[i] = c

IsSpace(c) == c = " "

IsAlphaChar(c) == c \in Range(UpperChars) \cup Range(LowerChars)

IsDigitChar(c) == c \in Range(DigitChars)

\* str.isalpha(): non-empty and every character a letter
IsAlpha(s) == s # <<>> /\ \A i \in DOMAIN s : IsAlphaChar(s[i])

\* str.isdigit(): non-empty and every character a digit
IsDigit(s) == s # <<>> /\ \A i \in DOMAIN s : IsDigitChar(s[i])

LowerChar(c) ==
    IF c \in Range(UpperChars)
    THEN LowerChars[CHOOSE i \in DOMAIN UpperChars : UpperChars[i] = c]
    ELSE c

\* str.lower()
Lower(s) == [i \in DOMAIN s |-> LowerChar(s[i])]

\* s[a:b] for 0 <= a, with Python's clipping (a and b are 0-based)
Slice(s, a, b) ==
    LET hi == IF b > Len(s) THEN Len(s) ELSE b
    IN  IF a >= hi THEN <<>> ELSE SubSeq(s, a + 1, hi)

\* s[-n:]
LastN(s, n) == IF n >= Len(s) THEN s ELSE SubSeq(s, Len(s) - n + 1, Len(s))

\* str.startswith(prefix)
StartsWith(s, prefix) ==
    Len(s) >= Len(prefix) /\ SubSeq(s, 1, Len(prefix)) = prefix

RECURSIVE LStrip(_)
LStrip(s) == IF s # <<>> /\ IsSpace(Head(s)) THEN LStrip(Tail(s)) ELSE s

RECURSIVE RStrip(_)
RStrip(s) ==
    IF s # <<>> /\ IsSpace(s[Len(s)]) THEN RStrip(SubSeq(s, 1, Len(s) - 1)) ELSE s

\* str.strip()
Strip(s) == RStrip(LStrip(s))

\* str.split(): the maximal runs of non-whitespace characters, in order
RECURSIVE SplitFrom(_, _, _)
SplitFrom(s, cur, acc) ==
    IF s = <<>>
    THEN IF cur = <<>> THEN acc ELSE Append(acc, cur)
    ELSE IF IsSpace(Head(s))
         THEN SplitFrom(Tail(s), <<>>, IF cur = <<>> THEN acc ELSE Append(acc, cur))
         ELSE SplitFrom(Tail(s), Append(cur, Head(s)), acc)

Split(s) == SplitFrom(s, <<>>, <<>>)

\* a < b for str: lexicographic by code point, a proper prefix first
RECURSIVE StrLess(_, _)
StrLess(a, b) ==
    IF b = <<>> THEN FALSE
    ELSE IF a = <<>> THEN TRUE
    ELSE IF Head(a) = Head(b) THEN StrLess(Tail(a), Tail(b))
    ELSE Ord(Head(a)) < Ord(Head(b))

\* sorted(tokens) for a set of str
RECURSIVE Sorted(_)
Sorted(tokens) ==
    IF tokens = {} THEN <<>>
    ELSE LET m == CHOOSE x \in tokens : \A y \in tokens \ {x} : StrLess(x, y)
         IN  <<m>> \o Sorted(tokens \ {m})

\* ' '.join(parts)
RECURSIVE JoinSpace(_)
JoinSpace(parts) ==
    IF parts = <<>> THEN <<>>
    ELSE IF Len(parts) = 1 THEN parts[1]
    ELSE parts[1] \o <<" ">> \o JoinSpace(Tail(parts))

-----------------------------------------------------------------------------
(* Numbers of the code *)

MinExtractedFields == 5

PanLength == 10

AadhaarLength == 12

IndianPhoneLength == 13

-----------------------------------------------------------------------------
(* Confusion corrector (verifier/normalize/cleaners.py) *)

\* a function's return value v
Return(v) == [exc |-> "none", value |-> v]

\* the function ended in an exception of class e
Raise(e) == [exc |-> e]

\* the forward map without its entry for the blank
ConfusionMapKeepingBlanks ==
    << <<"O", <<"0">>>>, <<"o", <<"0">>>>, <<"S", <<"5">>>>, <<"s", <<"5">>>>,
       <<"I", <<"1">>>>, <<"l", <<"1">>>>, <<"B", <<"8">>>>, <<"Z", <<"2">>>> >>

\* CONFUSION_MAP.items(), in insertion order; '' is the empty replacement
CONFUSION_MAP ==
    << <<"O", <<"0">>>>, <<"o", <<"0">>>>, <<"S", <<"5">>>>, <<"s", <<"5">>>>,
       <<"I", <<"1">>>>, <<"l", <<"1">>>>, <<"B", <<"8">>>>, <<"Z", <<"2">>>>,
       <<" ", <<>>>> >>

REVERSE_CONFUSION_MAP ==
    << <<"0", <<"O">>>>, <<"5", <<"S">>>>, <<"1", <<"I">>>>, <<"8", <<"B">>>>,
       <<"2", <<"Z">>>> >>

\* the corrections of the alphanumeric / unknown branch of correct_text
ConservativeCorrections == << <<"O", <<"0">>>>, <<"l", <<"1">>>>, <<"I", <<"1">>>> >>

\* text.replace(wrong, correct) for a one-character wrong
RECURSIVE Replace(_, _, _)
Replace(text, wrong, correct) ==
    IF text = <<>> THEN <<>>
    ELSE (IF Head(text) = wrong THEN correct ELSE <<Head(text)>>)
             \o Replace(Tail(text), wrong, correct)

\* for wrong, correct in table.items(): text = text.replace(wrong, correct)
RECURSIVE ReplaceAll(_, _)
ReplaceAll(text, table) ==
    IF table = <<>> THEN text
    ELSE ReplaceAll(Replace(text, Head(table)[1], Head(table)[2]), Tail(table))

\* the corrector with the branch of the alphanumeric hint taken for every hint
CorrectTextAnyHint(text, field_hint) ==
    IF ~Truthy(text) \/ text.t # "str" THEN text
    ELSE PyStr(ReplaceAll(text.s, ConservativeCorrections))

\* correct_text(text, field_hint); field_hint is a str value or None
correct_text(text, field_hint) ==
    IF ~Truthy(text) \/ text.t # "str" THEN text
    ELSE IF field_hint = PyStr(<<"n", "u", "m", "e", "r", "i", "c">>)
    THEN PyStr(ReplaceAll(text.s, CONFUSION_MAP))
    ELSE IF field_hint = PyStr(<<"a", "l", "p", "h", "a">>)
    THEN PyStr(ReplaceAll(text.s, REVERSE_CONFUSION_MAP))
    ELSE PyStr(ReplaceAll(text.s, ConservativeCorrections))

\* a hint table without entries
FieldHintNone(field_name) == PyNone

\* field_hints.get(field_name, None)
FieldHint(field_name) ==
    CASE field_name \in {"aadhaar_number", "phone_number", "account_number",
                         "date_of_birth"}
             -> PyStr(<<"n", "u", "m", "e", "r", "i", "c">>)
      [] field_name \in {"pan_number", "employee_id"}
             -> PyStr(<<"a", "l", "p", "h", "a", "n", "u", "m", "e", "r", "i", "c">>)
      [] field_name \in {"full_name", "father_name"}
             -> PyStr(<<"a", "l", "p", "h", "a">>)
      [] OTHER -> PyNone

\* the corrected copy of one field entry
CorrectedField(field_name, field_data) ==
    IF field_data.t # "dict" THEN field_data
    ELSE IF /\ "value" \in DOMAIN field_data.d
            /\ Truthy(field_data.d["value"])
            /\ field_data.d["value"].t = "str"
         THEN PyDict([k \in DOMAIN field_data.d |->
                         IF k = "value"
                         THEN correct_text(field_data.d["value"], FieldHint(field_name))
                         ELSE field_data.d[k]])
         ELSE field_data

\* apply_confusion_corrections(*args): the function has the one parameter
\* extracted_data, so a call with any other number of arguments is a TypeError
apply_confusion_corrections(args) ==
    IF Len(args) # 1 THEN Raise("TypeError")
    ELSE IF args[1].t # "dict" THEN Return(args[1])
    ELSE Return(PyDict([field_name \in DOMAIN args[1].d |->
                           CorrectedField(field_name, args[1].d[field_name])]))

-----------------------------------------------------------------------------
(* Field normalizers (verifier/normalize/normalizers.py) *)

\* re.sub(r'\D', '', text)
DigitsOf(text) == SelectSeq(text, IsDigitChar)

\* re.sub(r'[^A-Z0-9]', '', text)
UpperAlnumOf(text) ==
    SelectSeq(text, LAMBDA c : c \in Range(UpperChars) \/ IsDigitChar(c))

UpperChar(c) ==
    IF c \in Range(LowerChars)
    THEN UpperChars[CHOOSE i \in DOMAIN LowerChars : LowerChars[i] = c]
    ELSE c

\* str.upper()
Upper(s) == [i \in DOMAIN s |-> UpperChar(s[i])]

\* re.match(PAN_PATTERN, text): the pattern [A-Z]{5}[0-9]{4}[A-Z] matched at the
\* start of text
MatchesPanPattern(text) ==
    /\ Len(text) >= 10
    /\ \A i \in 1..5 : text[i] \in Range(UpperChars)
    /\ \A i \in 6..9 : IsDigitChar(text[i])
    /\ text[10] \in Range(UpperChars)

\* the branches of normalize_phone on the digit string; a 13-digit string that
\* starts with 91 matches no return and falls through to the else of the chain
PhoneFromDigits(digits) ==
    IF Len(digits) = 10 THEN PyStr(<<"+", "9", "1">> \o digits)
    ELSE IF Len(digits) = 11 /\ StartsWith(digits, <<"0">>)
    THEN PyStr(<<"+", "9", "1">> \o Tail(digits))
    ELSE IF Len(digits) = 12 /\ StartsWith(digits, <<"9", "1">>)
    THEN PyStr(<<"+">> \o digits)
    ELSE IF Len(digits) = 13 /\ StartsWith(digits, <<"+", "9", "1">>)
    THEN PyStr(<<"+">> \o Tail(digits))
    ELSE IF Len(digits) = 13 /\ ~StartsWith(digits, <<"9", "1">>)
    THEN (IF IsDigit(LastN(digits, 10))
          THEN PyStr(<<"+", "9", "1">> \o LastN(digits, 10)) ELSE PyNone)
    ELSE IF 10 <= Len(digits) /\ Len(digits) <= 15
    THEN PyStr(<<"+">> \o digits)
    ELSE PyNone

normalize_phone(raw_phone) ==
    IF ~Truthy(raw_phone) THEN Return(PyNone)
    ELSE LET cleaned == apply_confusion_corrections(
                            <<raw_phone, PyStr(<<"n", "u", "m", "e", "r", "i", "c">>)>>)
         IN  IF cleaned.exc # "none" THEN Raise(cleaned.exc)
             ELSE IF cleaned.value.t # "str" THEN Raise("TypeError")
             ELSE Return(PhoneFromDigits(DigitsOf(cleaned.value.s)))

normalize_pan(raw_pan) ==
    IF ~Truthy(raw_pan) THEN Return(PyNone)
    ELSE LET cleaned == apply_confusion_corrections(
                            <<PyStr(Upper(raw_pan.s)),
                              PyStr(<<"a", "l", "p", "h", "a", "n", "u", "m", "e", "r",
                                      "i", "c">>)>>)
         IN  IF cleaned.exc # "none" THEN Raise(cleaned.exc)
             ELSE IF cleaned.value.t # "str" THEN Raise("TypeError")
             ELSE IF MatchesPanPattern(UpperAlnumOf(cleaned.value.s))
             THEN Return(PyStr(UpperAlnumOf(cleaned.value.s)))
             ELSE Return(PyNone)

normalize_aadhaar(raw_aadhaar) ==
    IF ~Truthy(raw_aadhaar) THEN Return(PyNone)
    ELSE LET cleaned == apply_confusion_corrections(
                            <<raw_aadhaar, PyStr(<<"n", "u", "m", "e", "r", "i", "c">>)>>)
         IN  IF cleaned.exc # "none" THEN Raise(cleaned.exc)
             ELSE IF cleaned.value.t # "str" THEN Raise("TypeError")
             ELSE IF Len(DigitsOf(cleaned.value.s)) = AadhaarLength
             THEN Return(PyStr(DigitsOf(cleaned.value.s)))
             ELSE Return(PyNone)

-----------------------------------------------------------------------------
(* Date normalizer (verifier/normalize/normalizers.py) *)

\* MONTH_MAP.items()
MONTH_MAP ==
    << <<<<"j", "a", "n">>, <<"0", "1">>>>,
       <<<<"j", "a", "n", "u", "a", "r", "y">>, <<"0", "1">>>>,
       <<<<"f", "e", "b">>, <<"0", "2">>>>,
       <<<<"f", "e", "b", "r", "u", "a", "r", "y">>, <<"0", "2">>>>,
       <<<<"m", "a", "r">>, <<"0", "3">>>>,
       <<<<"m", "a", "r", "c", "h">>, <<"0", "3">>>>,
       <<<<"a", "p", "r">>, <<"0", "4">>>>,
       <<<<"a", "p", "r", "i", "l">>, <<"0", "4">>>>,
       <<<<"m", "a", "y">>, <<"0", "5">>>>,
       <<<<"j", "u", "n">>, <<"0", "6">>>>,
       <<<<"j", "u", "n", "e">>, <<"0", "6">>>>,
       <<<<"j", "u", "l">>, <<"0", "7">>>>,
       <<<<"j", "u", "l", "y">>, <<"0", "7">>>>,
       <<<<"a", "u", "g">>, <<"0", "8">>>>,
       <<<<"a", "u", "g", "u", "s", "t">>, <<"0", "8">>>>,
       <<<<"s", "e", "p">>, <<"0", "9">>>>,
       <<<<"s", "e", "p", "t">>, <<"0", "9">>>>,
       <<<<"s", "e", "p", "t", "e", "m", "b", "e", "r">>, <<"0", "9">>>>,
       <<<<"o", "c", "t">>, <<"1", "0">>>>,
       <<<<"o", "c", "t", "o", "b", "e", "r">>, <<"1", "0">>>>,
       <<<<"n", "o", "v">>, <<"1", "1">>>>,
       <<<<"n", "o", "v", "e", "m", "b", "e", "r">>, <<"1", "1">>>>,
       <<<<"d", "e", "c">>, <<"1", "2">>>>,
       <<<<"d", "e", "c", "e", "m", "b", "e", "r">>, <<"1", "2">>>> >>

\* MONTH_MAP.get(key, None); <<>> stands for None
MonthGet(key) ==
    IF \E i \in DOMAIN MONTH_MAP : MONTH_MAP[i][1] = key
    THEN MONTH_MAP[CHOOSE i \in DOMAIN MONTH_MAP : MONTH_MAP[i][1] = key][2]
    ELSE <<>>

\* one quantified character class of a pattern: between lo and hi characters of
\* chars (hi < lo: no upper limit), captured as a group or not
Item(chars, lo, hi, group) == [chars |-> chars, lo |-> lo, hi |-> hi, group |-> group]

\* \d, \w and \s over the characters of the inputs
ReDigit == Range(DigitChars)

ReWord == Range(DigitChars) \cup Range(UpperChars) \cup Range(LowerChars) \cup {"_"}

ReSpace == {" "}

\* DATE_PATTERNS, each pattern as the sequence of its quantified classes
DATE_PATTERNS ==
    << << Item(ReDigit, 1, 2, TRUE), Item({"-", "/"}, 1, 1, FALSE),
          Item(ReDigit, 1, 2, TRUE), Item({"-", "/"}, 1, 1, FALSE),
          Item(ReDigit, 2, 4, TRUE) >>,
       << Item(ReDigit, 2, 4, TRUE), Item({"-", "/"}, 1, 1, FALSE),
          Item(ReDigit, 1, 2, TRUE), Item({"-", "/"}, 1, 1, FALSE),
          Item(ReDigit, 1, 2, TRUE) >>,
       << Item(ReDigit, 1, 2, TRUE), Item(ReSpace, 1, 0, FALSE),
          Item(ReWord, 1, 0, TRUE), Item(ReSpace, 1, 0, FALSE),
          Item(ReDigit, 2, 4, TRUE) >>,
       << Item(ReDigit, 1, 2, TRUE), Item({"-", " "}, 1, 1, FALSE),
          Item(ReWord, 1, 0, TRUE), Item({"-", "/", " "}, 1, 1, FALSE),
          Item(ReDigit, 2, 4, TRUE) >>,
       << Item(ReWord, 1, 0, TRUE), Item(ReSpace, 1, 0, FALSE),
          Item(ReDigit, 1, 2, TRUE), Item({","}, 0, 1, FALSE),
          Item(ReSpace, 1, 0, FALSE), Item(ReDigit, 2, 4, TRUE) >> >>

\* the number of characters of chars at text[pos], text[pos + 1], ..., at most cap
RECURSIVE Run(_, _, _, _)
Run(text, pos, chars, cap) ==
    IF cap = 0 \/ pos > Len(text) \/ text[pos] \notin chars THEN 0
    ELSE 1 + Run(text, pos + 1, chars, cap - 1)

\* the regex engine on a sequence of greedy quantified classes: the first class
\* takes as many characters as it can and gives them back one by one until the
\* rest of the pattern matches
RECURSIVE MatchAt(_, _, _)
RECURSIVE TryCount(_, _, _, _)
MatchAt(items, text, pos) ==
    IF items = <<>> THEN [ok |-> TRUE, groups |-> <<>>]
    ELSE LET it == Head(items)
             cap == IF it.hi < it.lo THEN Len(text) ELSE it.hi
         IN  TryCount(items, text, pos, Run(text, pos, it.chars, cap))

TryCount(items, text, pos, n) ==
    IF n < Head(items).lo THEN [ok |-> FALSE, groups |-> <<>>]
    ELSE LET rest == MatchAt(Tail(items), text, pos + n)
         IN  IF rest.ok
             THEN [ok |-> TRUE,
                   groups |-> IF Head(items).group
                              THEN <<SubSeq(text, pos, pos + n - 1)>> \o rest.groups
                              ELSE rest.groups]
             ELSE TryCount(items, text, pos, n - 1)

\* re.search(pattern, text): the match at the leftmost position that has one
RECURSIVE Search(_, _, _)
Search(items, text, pos) ==
    IF pos > Len(text) THEN [ok |-> FALSE, groups |-> <<>>]
    ELSE IF MatchAt(items, text, pos).ok THEN MatchAt(items, text, pos)
    ELSE Search(items, text, pos + 1)

\* clean_whitespace (cleaners.py): whitespace runs become one blank, then strip()
clean_whitespace(text) == JoinSpace(Split(text))

\* _strip_ordinal: re.sub(r'(st|nd|rd|th)$', '', day_str, flags=re.IGNORECASE)
strip_ordinal(day_str) ==
    IF /\ Len(day_str) >= 2
       /\ Lower(LastN(day_str, 2)) \in {<<"s", "t">>, <<"n", "d">>, <<"r", "d">>, <<"t", "h">>}
    THEN SubSeq(day_str, 1, Len(day_str) - 2)
    ELSE day_str

\* str.zfill(width) for a string without a sign
RECURSIVE ZFill(_, _)
ZFill(s, width) == IF Len(s) >= width THEN s ELSE ZFill(<<"0">> \o s, width)

\* _normalize_two_digit_year
normalize_two_digit_year(y) ==
    IF Len(Strip(y)) = 2 THEN <<"2", "0">> \o Strip(y) ELSE ZFill(Strip(y), 4)

\* int(s) for a string of digits
RECURSIVE ToInt(_)
ToInt(s) ==
    IF s = <<>> THEN 0
    ELSE 10 * ToInt(SubSeq(s, 1, Len(s) - 1))
             + (CHOOSE i \in DOMAIN DigitChars : DigitChars[i] = s[Len(s)]) - 1

\* the days of a month of the proleptic Gregorian calendar
DaysIn(year, month) ==
    IF month = 2
    THEN (IF year % 4 = 0 /\ (year % 100 # 0 \/ year % 400 = 0) THEN 29 ELSE 28)
    ELSE IF month \in {4, 6, 9, 11} THEN 30 ELSE 31

\* the validation by the format of the three parts alone
ValidYmdFormatOnly(year, month, day) ==
    /\ Len(year) = 4 /\ IsDigit(year)
    /\ Len(month) \in {1, 2} /\ IsDigit(month) /\ ToInt(month) \in 1..12
    /\ Len(day) \in {1, 2} /\ IsDigit(day) /\ ToInt(day) \in 1..31

\* datetime.strptime(f"{year}-{month}-{day}", "%Y-%m-%d") returns (FALSE:
\* ValueError): %Y is four digits, %m 1..12 and %d 1..31 in one or two digits,
\* and the date exists
ValidYmd(year, month, day) ==
    /\ Len(year) = 4 /\ IsDigit(year) /\ ToInt(year) >= 1
    /\ Len(month) \in {1, 2} /\ IsDigit(month) /\ ToInt(month) \in 1..12
    /\ Len(day) \in {1, 2} /\ IsDigit(day) /\ ToInt(day) >= 1
    /\ ToInt(day) <= DaysIn(ToInt(year), ToInt(month))

\* f"{year}-{month}-{day}", or <<>> when validation raised
Validated(year, month, day) ==
    IF ValidYmd(year, month, day) THEN year \o <<"-">> \o month \o <<"-">> \o day
    ELSE <<>>

\* the month-name lookup of normalize_date (lines 404-412)
MonthNum(month_str) ==
    IF MonthGet(Slice(month_str, 0, 3)) # <<>> THEN MonthGet(Slice(month_str, 0, 3))
    ELSE MonthGet(month_str)

\* the branch for a match with a month name at parts[month_idx]; <<>> is `continue`
MonthNameDate(parts, month_idx) ==
    LET month_num == MonthNum(Lower(parts[month_idx]))
        idxs == SelectSeq(<<1, 2, 3>>, LAMBDA i : i # month_idx)
        looks_year(i) == \/ Len(parts[i]) = 4 /\ IsDigit(parts[i])
                         \/ Len(parts[i]) = 2 /\ IsDigit(parts[i]) /\ ToInt(parts[i]) > 31
        year_idx == IF looks_year(idxs[2]) THEN idxs[2]
                    ELSE IF looks_year(idxs[1]) THEN idxs[1]
                    ELSE idxs[2]
        day_idx == IF year_idx = idxs[1] THEN idxs[2] ELSE idxs[1]
    IN  IF month_num = <<>> THEN <<>>
        ELSE Validated(normalize_two_digit_year(parts[year_idx]), month_num,
                       ZFill(parts[day_idx], 2))

\* the branch for a numeric match; the pattern's position of the year is taken
\* from the lengths of the first and the last part
NumericDate(parts) ==
    LET a == parts[1]
        b == parts[2]
        c == parts[3]
    IN  IF Len(a) = 4 THEN Validated(ZFill(a, 4), ZFill(b, 2), ZFill(c, 2))
        ELSE IF Len(c) = 4 THEN Validated(ZFill(c, 4), ZFill(b, 2), ZFill(a, 2))
        ELSE Validated(ZFill(normalize_two_digit_year(c), 4), ZFill(b, 2), ZFill(a, 2))

\* one round of the loop over DATE_PATTERNS: the date returned, or <<>> when the
\* round ends in `continue`
TryPattern(pattern, cleaned) ==
    LET match == Search(pattern, cleaned, 1)
        parts == [i \in DOMAIN match.groups |-> strip_ordinal(Strip(match.groups[i]))]
        has_letter(p) == \E i \in DOMAIN p : IsAlphaChar(p[i])
        month_idxs == {i \in DOMAIN parts : has_letter(parts[i])}
    IN  IF ~match.ok THEN <<>>
        ELSE IF month_idxs # {}
        THEN MonthNameDate(parts, CHOOSE i \in month_idxs : \A j \in month_idxs : i <= j)
        ELSE NumericDate(parts)

\* the loop: the first pattern that yields a valid date decides
RECURSIVE FirstDate(_, _)
FirstDate(patterns, cleaned) ==
    IF patterns = <<>> THEN PyNone
    ELSE IF TryPattern(Head(patterns), cleaned) # <<>>
    THEN PyStr(TryPattern(Head(patterns), cleaned))
    ELSE FirstDate(Tail(patterns), cleaned)

normalize_date(raw_date) ==
    IF ~Truthy(raw_date) THEN Return(PyNone)
    ELSE IF raw_date.t # "str" THEN Raise("TypeError")
    ELSE Return(FirstDate(DATE_PATTERNS,
                          Replace(clean_whitespace(raw_date.s), ",", <<" ">>)))

-----------------------------------------------------------------------------
(* Employee id and email normalizers (verifier/normalize/normalizers.py) *)

\* the alternatives of ^(EMP|ID|STAFF|EMPLOYEE), in the order the regex tries them
EmployeeIdPrefixes ==
    << <<"E", "M", "P">>, <<"I", "D">>, <<"S", "T", "A", "F", "F">>,
       <<"E", "M", "P", "L", "O", "Y", "E", "E">> >>

\* [\s\-_]* at the start of text removed
RECURSIVE StripSeparators(_)
StripSeparators(text) ==
    IF text # <<>> /\ Head(text) \in {" ", "-", "_"} THEN StripSeparators(Tail(text))
    ELSE text

\* re.sub(r'^(EMP|ID|STAFF|EMPLOYEE)[\s\-_]*', '', cleaned): the first alternative
\* that matches at the start is the one removed, with the separators after it
RECURSIVE StripEmployeePrefix(_, _)
StripEmployeePrefix(prefixes, cleaned) ==
    IF prefixes = <<>> THEN cleaned
    ELSE IF StartsWith(cleaned, Head(prefixes))
    THEN StripSeparators(SubSeq(cleaned, Len(Head(prefixes)) + 1, Len(cleaned)))
    ELSE StripEmployeePrefix(Tail(prefixes), cleaned)

\* corrections of normalize_employee_id, in the order of the dict
EmployeeIdCorrections ==
    << <<"O", <<"0">>>>, <<"I", <<"1">>>>, <<"L", <<"1">>>>, <<"S", <<"5">>>>,
       <<"B", <<"8">>>> >>

\* re.sub(r'[^A-Z0-9\-]', '', cleaned)
IsEmployeeIdChar(c) == c \in Range(UpperChars) \cup Range(DigitChars) \cup {"-"}

normalize_employee_id(raw_emp_id) ==
    IF ~Truthy(raw_emp_id) THEN Return(PyNone)
    ELSE IF raw_emp_id.t # "str" THEN Raise("AttributeError")
    ELSE LET stripped == StripEmployeePrefix(EmployeeIdPrefixes,
                                             clean_whitespace(Upper(raw_emp_id.s)))
             cleaned == SelectSeq(ReplaceAll(stripped, EmployeeIdCorrections),
                                  IsEmployeeIdChar)
         IN  IF Len(cleaned) >= 2 THEN Return(PyStr(cleaned)) ELSE Return(PyNone)

\* text.replace(wrong, correct) for a wrong of any length: the occurrences are
\* taken from the left and do not overlap
RECURSIVE ReplaceStr(_, _, _)
ReplaceStr(text, wrong, correct) ==
    IF Len(text) < Len(wrong) THEN text
    ELSE IF StartsWith(text, wrong)
    THEN correct \o ReplaceStr(SubSeq(text, Len(wrong) + 1, Len(text)), wrong, correct)
    ELSE <<Head(text)>> \o ReplaceStr(Tail(text), wrong, correct)

\* for wrong, correct in table.items(): cleaned = cleaned.replace(wrong, correct)
RECURSIVE ReplaceStrAll(_, _)
ReplaceStrAll(text, table) ==
    IF table = <<>> THEN text
    ELSE ReplaceStrAll(ReplaceStr(text, Head(table)[1], Head(table)[2]), Tail(table))

\* corrections of normalize_email, in the order of the dict
EmailCorrections ==
    << <<<<" ">>, <<".">>>>, <<<<".", ".">>, <<".">>>>, <<<<" ", ".">>, <<".">>>>,
       <<<<".", " ">>, <<".">>>> >>

\* domain_corrections of normalize_email, in the order of the dict
EmailDomainCorrections ==
    << <<<<"g", "m", "a", "1", "l", ".">>,
          <<"g", "m", "a", "i", "l", ".">>>>,
       <<<<"g", "m", "a", "i", "1", ".">>,
          <<"g", "m", "a", "i", "l", ".">>>>,
       <<<<"y", "a", "h", "0", "o", ".">>,
          <<"y", "a", "h", "o", "o", ".">>>>,
       <<<<"y", "a", "h", "o", "0", ".">>,
          <<"y", "a", "h", "o", "o", ".">>>>,
       <<<<"h", "o", "t", "m", "a", "1", "l", ".">>,
          <<"h", "o", "t", "m", "a", "i", "l", ".">>>>,
       <<<<"o", "u", "t", "1", "o", "o", "k", ".">>,
          <<"o", "u", "t", "l", "o", "o", "k", ".">>>>,
       <<<<"e", "m", "a", "1", "l", ".">>,
          <<"e", "m", "a", "i", "l", ".">>>> >>

\* re.match(r'^[a-zA-Z0-9._%+-]+$', local_part)
IsEmailLocal(local_part) ==
    /\ local_part # <<>>
    /\ \A i \in DOMAIN local_part :
           IsAlphaChar(local_part[i]) \/ IsDigitChar(local_part[i])
               \/ local_part[i] \in {".", "_", "%", "+", "-"}

\* re.match(r'^[a-zA-Z0-9.-]+\.[a-zA-Z]{2,}$', domain_part)
IsEmailDomain(domain_part) ==
    \E i \in DOMAIN domain_part :
        /\ domain_part[i] = "."
        /\ i >= 2
        /\ \A j \in 1..(i - 1) :
               IsAlphaChar(domain_part[j]) \/ IsDigitChar(domain_part[j])
                   \/ domain_part[j] \in {".", "-"}
        /\ Len(domain_part) - i >= 2
        /\ \A j \in (i + 1)..Len(domain_part) : IsAlphaChar(domain_part[j])

normalize_email(raw_email) ==
    IF ~Truthy(raw_email) THEN Return(PyNone)
    ELSE IF raw_email.t # "str" THEN Raise("AttributeError")
    ELSE LET spaced == ReplaceStrAll(clean_whitespace(Lower(raw_email.s)),
                                     EmailCorrections)
             cleaned == ReplaceStrAll(spaced, EmailDomainCorrections)
         IN  IF "@" \notin Range(cleaned) THEN Return(PyNone)
             ELSE LET at == CHOOSE i \in DOMAIN cleaned :
                                /\ cleaned[i] = "@"
                                /\ \A j \in 1..(i - 1) : cleaned[j] # "@"
                      local_part == SubSeq(cleaned, 1, at - 1)
                      domain_part == SubSeq(cleaned, at + 1, Len(cleaned))
                      final == IF ~IsEmailDomain(domain_part)
                                   /\ "." \notin Range(domain_part)
                               THEN cleaned \o <<".", "c", "o", "m">>
                               ELSE cleaned
                  IN  IF ~IsEmailLocal(local_part) THEN Return(PyNone)
                      ELSE IF IsEmailLocal(local_part)
                              /\ IsEmailDomain(SubSeq(final, at + 1, Len(final)))
                      THEN Return(PyStr(final))
                      ELSE Return(PyNone)

-----------------------------------------------------------------------------
(* The data model: document types, field names, rule ids *)

DocTypes == {"government_id", "bank_statement", "employment_letter"}

\* the order in which the reason texts list the documents
DocOrder == <<"government_id", "bank_statement", "employment_letter">>

FieldNames == {"full_name", "father_name", "date_of_birth", "address",
               "phone_number", "email_address", "aadhaar_number", "pan_number",
               "employee_id", "account_number"}

RuleIds == {"rule_1_name_match", "rule_2_dob_match", "rule_3_address_match",
            "rule_4_phone_match", "rule_5_father_name_match",
            "rule_6_pan_format", "rule_7_aadhaar_format"}

RuleOrder == <<"rule_1_name_match", "rule_2_dob_match", "rule_3_address_match",
               "rule_4_phone_match", "rule_5_father_name_match",
               "rule_6_pan_format", "rule_7_aadhaar_format">>

key_rules == {"rule_1_name_match", "rule_2_dob_match"}

-----------------------------------------------------------------------------
(* Outcomes of the rule functions *)

\* the function returned {"status": ..., "reason": ..., "values": ...}
Result(status, reason, values) ==
    [exc |-> "none", status |-> status, reason |-> reason, values |-> values]

NumWord(n) == CASE n = 0 -> "0" [] n = 1 -> "1" [] n = 2 -> "2" [] OTHER -> "3"

\* the documents of a set, in listing order
DocList(docs) == SelectSeq(DocOrder, LAMBDA d : d \in docs)

\* data.get(field, {}): the field entry of a document
FieldEntry(data, field) == DictGet(data, field, EmptyDict)

\* entry.get('value') raises AttributeError unless the entry is a dict
EntryRaises(extraction, field) ==
    \E doc \in DOMAIN extraction : FieldEntry(extraction[doc], field).t # "dict"

\* data.get(field, {}).get('value')
FieldValue(data, field) == DictGet(FieldEntry(data, field), "value", PyNone)

\* the {doc_type: value} dict a rule collects: documents with a truthy value
Collect(extraction, field) ==
    [doc \in {d \in DOMAIN extraction : Truthy(FieldValue(extraction[d], field))}
        |-> FieldValue(extraction[doc], field)]

Values(f) == {f[x] : x \in DOMAIN f}

\* mutant of Insufficient: the gate lets a single document through
InsufficientBelowOne(collected) == Cardinality(DOMAIN collected) < 1

\* len(collected) < 2: the gate of the five comparison rules
Insufficient(collected) == Cardinality(DOMAIN collected) < 2

-----------------------------------------------------------------------------
(* Rules 1 and 5: name and father's name *)

\* mutant of NormalizedName: the tokens are not sorted
NormalizedNameUnsorted(name) == JoinSpace(Split(Lower(name)))

\* ' '.join(sorted(set(name.lower().split())))
NormalizedName(name) == JoinSpace(Sorted(Range(Split(Lower(name)))))

TokenMatch(extraction, field, insufficient, match, mismatch) ==
    IF EntryRaises(extraction, field) THEN Raise("AttributeError")
    ELSE LET names == Collect(extraction, field)
         IN  IF Insufficient(names)
             THEN Result("FAIL", insufficient, names)
             ELSE IF \E doc \in DOMAIN names : names[doc].t # "str"
             THEN Raise("AttributeError")
             ELSE LET normalized_names ==
                          [doc \in DOMAIN names |-> NormalizedName(names[doc].s)]
                      unique_names == Values(normalized_names)
                  IN  IF Cardinality(unique_names) = 1
                      THEN Result("PASS", match, names)
                      ELSE Result("FAIL",
                                  mismatch \o <<"Found", NumWord(Cardinality(unique_names)),
                                                "different", "normalized", "names">>,
                                  names)

verify_name_match(extraction) ==
    TokenMatch(extraction, "full_name",
        <<"Insufficient", "name", "data", "for", "comparison">>,
        <<"All", "document", "names", "match", "after", "normalization">>,
        <<"Name", "mismatch", "across", "documents.">>)

verify_father_name_match(extraction) ==
    TokenMatch(extraction, "father_name",
        <<"Insufficient", "father's", "name", "data", "for", "comparison">>,
        <<"All", "document", "father's", "names", "match", "after", "normalization">>,
        <<"Father's", "name", "mismatch", "across", "documents.">>)

-----------------------------------------------------------------------------
(* Rule 2: date of birth *)

\* mutant of UniqueDobs: the dates are compared by the digits they are written with
UniqueDobsByDigits(dobs) ==
    {Range(SelectSeq(dobs[doc].s, IsDigitChar)) : doc \in DOMAIN dobs}

\* set(dobs.values()): the distinct values, compared as they are
UniqueDobs(dobs) == Values(dobs)

\* set(dobs.values()) raises TypeError on an unhashable (dict) value
verify_dob_match(extraction) ==
    IF EntryRaises(extraction, "date_of_birth") THEN Raise("AttributeError")
    ELSE LET dobs == Collect(extraction, "date_of_birth")
         IN  IF Insufficient(dobs)
             THEN Result("FAIL", <<"Insufficient", "DOB", "data", "for", "comparison">>, dobs)
             ELSE IF \E doc \in DOMAIN dobs : dobs[doc].t = "dict"
             THEN Raise("TypeError")
             ELSE LET unique_dobs == UniqueDobs(dobs)
                  IN  IF Cardinality(unique_dobs) = 1
                      THEN Result("PASS",
                                  <<"All", "document", "dates", "of", "birth", "match">>, dobs)
                      ELSE Result("FAIL",
                                  <<"DOB", "mismatch", "across", "documents.", "Found",
                                    NumWord(Cardinality(unique_dobs)), "different", "dates">>,
                                  dobs)

-----------------------------------------------------------------------------
(* Rule 3: address *)

\* address.get(k, '').lower().strip() if address.get(k) else None
\* (pincode is stripped, not lowercased); None is the empty tuple here
LowerStripped(address, k) ==
    IF Truthy(DictGet(address, k, PyNone))
    THEN <<Strip(Lower(DictGet(address, k, PyNone).s))>> ELSE <<>>

Stripped(address, k) ==
    IF Truthy(DictGet(address, k, PyNone))
    THEN <<Strip(DictGet(address, k, PyNone).s)>> ELSE <<>>

\* mutant of AddressKey: city and state are compared without lowercasing
AddressKeyCaseSensitive(address) ==
    <<Stripped(address, "city"), Stripped(address, "state"),
      Stripped(address, "pincode")>>

\* the (city, state, pincode) tuple of a dict address; the text of the mismatch
\* reason lists the documents and leaves out the components it interpolates
AddressKey(address) ==
    <<LowerStripped(address, "city"), LowerStripped(address, "state"),
      Stripped(address, "pincode")>>

\* a truthy component that is not a str has no lower()/strip()
AddressKeyRaises(address) ==
    \E k \in {"city", "state", "pincode"} :
        /\ Truthy(DictGet(address, k, PyNone))
        /\ DictGet(address, k, PyNone).t # "str"

\* all(comp): every component is neither None nor ''
AllPresent(comp) == \A i \in DOMAIN comp : comp[i] # <<>> /\ comp[i] # <<<<>>>>

verify_address_match(extraction) ==
    IF EntryRaises(extraction, "address") THEN Raise("AttributeError")
    ELSE LET addresses == Collect(extraction, "address")
             dicts == {doc \in DOMAIN addresses : addresses[doc].t = "dict"}
         IN  IF Insufficient(addresses)
             THEN Result("FAIL",
                         <<"Insufficient", "address", "data", "for", "comparison">>,
                         addresses)
             ELSE IF \E doc \in dicts : AddressKeyRaises(addresses[doc])
             THEN Raise("AttributeError")
             ELSE LET key_components == [doc \in dicts |-> AddressKey(addresses[doc])]
                      unique_components ==
                          {comp \in Values(key_components) : AllPresent(comp)}
                  IN  IF Cardinality(unique_components) = 1
                      THEN Result("PASS",
                                  <<"Address", "key", "components", "(city,", "state,",
                                    "pincode)", "match", "across", "documents">>,
                                  addresses)
                      ELSE Result("FAIL",
                                  <<"Address", "key", "components", "mismatch.", "Details:">>
                                      \o DocList(dicts),
                                  addresses)

-----------------------------------------------------------------------------
(* Rule 4: phone *)

\* mutant of ReducedPhone: every phone is compared as it is
ReducedPhoneAsIs(phone) == phone

\* phone[-10:] if phone.startswith('+91') and len(phone) == 13 else phone
ReducedPhone(phone) ==
    IF StartsWith(phone, <<"+", "9", "1">>) /\ Len(phone) = IndianPhoneLength
    THEN LastN(phone, 10) ELSE phone

\* phone.startswith raises AttributeError for a truthy value that is not a str,
\* while the values are being collected
verify_phone_match(extraction) ==
    IF EntryRaises(extraction, "phone_number") THEN Raise("AttributeError")
    ELSE LET raw == Collect(extraction, "phone_number")
         IN  IF \E doc \in DOMAIN raw : raw[doc].t # "str"
             THEN Raise("AttributeError")
             ELSE LET phones == [doc \in DOMAIN raw |-> PyStr(ReducedPhone(raw[doc].s))]
                      unique_phones == Values(phones)
                  IN  IF Insufficient(phones)
                      THEN Result("FAIL",
                                  <<"Insufficient", "phone", "data", "for", "comparison">>,
                                  phones)
                      ELSE IF Cardinality(unique_phones) = 1
                      THEN Result("PASS",
                                  <<"All", "document", "phone", "numbers", "match">>, phones)
                      ELSE Result("FAIL",
                                  <<"Phone", "number", "mismatch", "across", "documents.",
                                    "Found", NumWord(Cardinality(unique_phones)),
                                    "different", "numbers">>,
                                  phones)

-----------------------------------------------------------------------------
(* Rules 6 and 7: PAN and Aadhaar format *)

\* len(v) raises TypeError for an int; a dict has a len, and is sliced (TypeError)
\* only when that len passes the length test
FormatRaises(v, length) ==
    \/ v.t = "int"
    \/ v.t = "dict" /\ Cardinality(DOMAIN v.d) = length

\* the PAN test without its pan[:5].isalpha() conjunct
ValidPanTail(pan) ==
    /\ pan.t = "str"
    /\ Len(pan.s) = PanLength
    /\ IsDigit(Slice(pan.s, 5, 9))
    /\ IsAlpha(<<pan.s[10]>>)

\* len(pan) == 10 and pan[:5].isalpha() and pan[5:9].isdigit() and pan[9].isalpha()
ValidPan(pan) ==
    /\ pan.t = "str"
    /\ Len(pan.s) = PanLength
    /\ IsAlpha(Slice(pan.s, 0, 5))
    /\ IsDigit(Slice(pan.s, 5, 9))
    /\ IsAlpha(<<pan.s[10]>>)

\* len(aadhaar) == 12 and aadhaar.isdigit()
ValidAadhaar(aadhaar) ==
    /\ aadhaar.t = "str"
    /\ Len(aadhaar.s) = AadhaarLength
    /\ IsDigit(aadhaar.s)

verify_pan_format(extraction) ==
    IF EntryRaises(extraction, "pan_number") THEN Raise("AttributeError")
    ELSE LET pans == Collect(extraction, "pan_number")
             invalid_pans == {doc \in DOMAIN pans : ~ValidPan(pans[doc])}
         IN  IF DOMAIN pans = {}
             THEN Result("FAIL",
                         <<"No", "PAN", "numbers", "found", "in", "any", "document">>, pans)
             ELSE IF \E doc \in DOMAIN pans : FormatRaises(pans[doc], PanLength)
             THEN Raise("TypeError")
             ELSE IF invalid_pans = {}
             THEN Result("PASS",
                         <<"All", "PAN", "numbers", "have", "valid", "format">>, pans)
             ELSE Result("FAIL",
                         <<"Invalid", "PAN", "format", "in", "documents:">>
                             \o DocList(invalid_pans),
                         pans)

verify_aadhaar_format(extraction) ==
    IF EntryRaises(extraction, "aadhaar_number") THEN Raise("AttributeError")
    ELSE LET aadhaars == Collect(extraction, "aadhaar_number")
             invalid_aadhaars == {doc \in DOMAIN aadhaars : ~ValidAadhaar(aadhaars[doc])}
         IN  IF DOMAIN aadhaars = {}
             THEN Result("FAIL",
                         <<"No", "Aadhaar", "numbers", "found", "in", "any", "document">>,
                         aadhaars)
             ELSE IF \E doc \in DOMAIN aadhaars : FormatRaises(aadhaars[doc], AadhaarLength)
             THEN Raise("TypeError")
             ELSE IF invalid_aadhaars = {}
             THEN Result("PASS",
                         <<"All", "Aadhaar", "numbers", "have", "valid", "format",
                           "(12", "digits)">>,
                         aadhaars)
             ELSE Result("FAIL",
                         <<"Invalid", "Aadhaar", "format", "in", "documents:">>
                             \o DocList(invalid_aadhaars),
                         aadhaars)

-----------------------------------------------------------------------------
(* verify_person *)

\* the seven rule functions, by the key verify_person stores their result under
RuleOutcome(rule, extraction) ==
    CASE rule = "rule_1_name_match"        -> verify_name_match(extraction)
      [] rule = "rule_2_dob_match"         -> verify_dob_match(extraction)
      [] rule = "rule_3_address_match"     -> verify_address_match(extraction)
      [] rule = "rule_4_phone_match"       -> verify_phone_match(extraction)
      [] rule = "rule_5_father_name_match" -> verify_father_name_match(extraction)
      [] rule = "rule_6_pan_format"        -> verify_pan_format(extraction)
      [] rule = "rule_7_aadhaar_format"    -> verify_aadhaar_format(extraction)

\* a rule's result as stored in the results dict: status, reason, values
Stored(outcome) ==
    [status |-> outcome.status, reason |-> outcome.reason, values |-> outcome.values]

\* sum(1 for rule in key_rules if results.get(rule, {}).get('status') == 'PASS')
PassedKeyRules(results) ==
    Cardinality({rule \in key_rules :
                    rule \in DOMAIN results /\ results[rule].status = "PASS"})

\* field_data.get('value') raises AttributeError for an entry that is not a dict
CountRaises(extraction) ==
    \E doc \in DOMAIN extraction : \E field \in DOMAIN extraction[doc].d :
        extraction[doc].d[field].t # "dict"

\* the number of field entries, over all documents, whose value is not None
RECURSIVE SumOver(_, _)
SumOver(f, keys) ==
    IF keys = {} THEN 0
    ELSE LET k == CHOOSE x \in keys : TRUE IN f[k] + SumOver(f, keys \ {k})

TotalExtractedFields(extraction) ==
    SumOver([doc \in DOMAIN extraction |->
                Cardinality({field \in DOMAIN extraction[doc].d :
                    DictGet(extraction[doc].d[field], "value", PyNone) # PyNone})],
            DOMAIN extraction)

\* mutant of ComputedStatus: no floor on the number of extracted fields
ComputedStatusNoFloor(total_extracted_fields, passed_key_rules) ==
    IF passed_key_rules >= Cardinality(key_rules) THEN "VERIFIED" ELSE "FAILED"

\* the overall status verify_person computes and logs
ComputedStatus(total_extracted_fields, passed_key_rules) ==
    IF total_extracted_fields < MinExtractedFields THEN "FAILED"
    ELSE IF passed_key_rules >= Cardinality(key_rules) THEN "VERIFIED"
    ELSE "FAILED"

\* the value verify_person returns
Returned(results, computed_status) == results

\* verify_person(extracted_data): exc is the exception that leaves it ("none" when
\* it returns), returned the returned value, logged the status of its last log line
verify_person(extraction) ==
    LET raising == {i \in DOMAIN RuleOrder : RuleOutcome(RuleOrder[i], extraction).exc # "none"}
    IN  IF raising # {}
        THEN LET first == CHOOSE i \in raising : \A j \in raising : i <= j
             IN  [exc |-> RuleOutcome(RuleOrder[first], extraction).exc]
        ELSE IF CountRaises(extraction)
        THEN [exc |-> "AttributeError"]
        ELSE LET results == [rule \in RuleIds |-> Stored(RuleOutcome(rule, extraction))]
                 status  == ComputedStatus(TotalExtractedFields(extraction),
                                           PassedKeyRules(results))
             IN  [exc |-> "none", returned |-> Returned(results, status), logged |-> status]

-----------------------------------------------------------------------------
(* process_person: collecting the documents, then verification *)

\* "VERIFIED" unless some rule result has status FAIL
PipelineStatus(results) ==
    IF \E rule \in DOMAIN results : results[rule].status = "FAIL"
    THEN "FAILED" ELSE "VERIFIED"

\* extracted_data[doc_type] = doc_extracted
ExtractDocument(doc_type, doc_extracted) ==
    /\ pc = "extract"
    /\ doc_type \notin DOMAIN extracted_data
    /\ extracted_data' =
           [d \in DOMAIN extracted_data \cup {doc_type} |->
               IF d = doc_type THEN doc_extracted ELSE extracted_data[d]]
    /\ UNCHANGED <<pc, verification_results, overall_status, verify_log, verify_error,
                   call>>

\* the verification step with the phone rule writing the reduced number back
\* into the field instead of into its own dict
VerifyPersonStoringPhones ==
    /\ pc = "extract"
    /\ LET out == verify_person(extracted_data)
       IN  IF out.exc = "none"
           THEN /\ verification_results' = out.returned
                /\ overall_status' = PipelineStatus(out.returned)
                /\ verify_log' = out.logged
                /\ verify_error' = "none"
           ELSE /\ verification_results' = <<>>
                /\ overall_status' = "FAILED"
                /\ verify_log' = "UNSET"
                /\ verify_error' = out.exc
    /\ pc' = "done"
    /\ extracted_data' =
           [doc \in DOMAIN extracted_data |->
               LET phone == FieldValue(extracted_data[doc], "phone_number")
               IN  IF phone.t = "str" /\ phone.s # <<>>
                   THEN PyDict([extracted_data[doc].d EXCEPT !["phone_number"] =
                                   PyDict([@.d EXCEPT !["value"] =
                                              PyStr(ReducedPhone(phone.s))])])
                   ELSE extracted_data[doc]]
    /\ UNCHANGED call

\* the try block that runs verify_person and derives the overall status;
\* an exception leaves empty results and FAILED
VerifyPerson ==
    /\ pc = "extract"
    /\ LET out == verify_person(extracted_data)
       IN  IF out.exc = "none"
           THEN /\ verification_results' = out.returned
                /\ overall_status' = PipelineStatus(out.returned)
                /\ verify_log' = out.logged
                /\ verify_error' = "none"
           ELSE /\ verification_results' = <<>>
                /\ overall_status' = "FAILED"
                /\ verify_log' = "UNSET"
                /\ verify_error' = out.exc
    /\ pc' = "done"
    /\ UNCHANGED <<extracted_data, call>>

Init ==
    /\ extracted_data = <<>>
    /\ pc = "extract"
    /\ verification_results = <<>>
    /\ overall_status = "UNSET"
    /\ verify_log = "UNSET"
    /\ verify_error = "none"
    /\ call = [fn |-> "none"]

-----------------------------------------------------------------------------
(* Input values: the strings the extractor may deliver *)

S_JohnDoe == <<"J", "o", "h", "n", " ", "D", "o", "e">>
S_DoeJohn == <<"D", "o", "e", " ", "J", "o", "h", "n">>
S_JohnJohnDoe == <<"J", "o", "h", "n", " ", "J", "o", "h", "n", " ", "D", "o", "e">>
S_JaneDoe == <<"J", "a", "n", "e", " ", "D", "o", "e">>
S_johnDOE == <<"j", "o", "h", "n", " ", " ", "D", "O", "E">>
S_RamDoe == <<"R", "a", "m", " ", "D", "o", "e">>
S_DoeRam == <<"D", "o", "e", " ", "R", "a", "m">>
S_Dob1 == <<"1", "9", "9", "0", "-", "0", "8", "-", "1", "5">>
S_Dob2 == <<"1", "5", "-", "0", "8", "-", "1", "9", "9", "0">>
S_Phone1 == <<"+", "9", "1", "9", "8", "7", "6", "5", "4", "3", "2", "1", "0">>
S_Phone2 == <<"9", "8", "7", "6", "5", "4", "3", "2", "1", "0">>
S_Phone3 == <<"9", "1", "9", "8", "7", "6", "5", "4", "3", "2", "1", "0">>
S_Phone4 == <<"+", "9", "1", "9", "8", "7", "6", "5", "4", "3", "2", "1", "1">>
S_Pan1 == <<"A", "B", "C", "D", "E", "1", "2", "3", "4", "F">>
S_Pan2 == <<"A", "B", "C", "D", "1", "2", "3", "4", "5", "F">>
S_Pan3 == <<"P", "Q", "R", "S", "T", "5", "6", "7", "8", "U">>
S_Pan4 == <<"a", "b", "c", "d", "e", "1", "2", "3", "4", "f">>
S_Aadhaar1 == <<"1", "2", "3", "4", "5", "6", "7", "8", "9", "0", "1", "2">>
S_Aadhaar2 == <<"1", "2", "3", "4">>
S_Aadhaar3 == <<"9", "9", "9", "9", "8", "8", "8", "8", "7", "7", "7", "7">>
S_House1 == <<"1", "2">>
S_House2 == <<"7", "B">>
S_Street1 == <<"M", "G", " ", "R", "o", "a", "d">>
S_Street2 == <<"P", "a", "r", "k", " ", "L", "a", "n", "e">>
S_Pune == <<"P", "u", "n", "e">>
S_PuneVar == <<" ", "P", "U", "N", "E", " ">>
S_Mumbai == <<"M", "u", "m", "b", "a", "i">>
S_Maharashtra == <<"M", "a", "h", "a", "r", "a", "s", "h", "t", "r", "a">>
S_MaharashtraVar == <<"m", "a", "h", "a", "r", "a", "s", "h", "t", "r", "a", " ">>
S_Pin1 == <<"4", "1", "1", "0", "0", "1">>
S_Pin1Var == <<"4", "1", "1", "0", "0", "1", " ">>
S_AddrText == <<"1", "2", " ", "M", "G", " ", "R", "o", "a", "d", ",", " ", "P", "u", "n", "e">>
S_Email == <<"j", "d", "@", "x", ".", "i", "n">>
S_EmpId == <<"E", "4", "2">>
S_Account == <<"5", "0", "0", "1">>
S_High == <<"h", "i", "g", "h">>
S_Low == <<"l", "o", "w">>
S_Regex == <<"r", "e", "g", "e", "x">>
S_NoSource == <<"n", "o", "n", "e">>

-----------------------------------------------------------------------------
(* Input documents *)

\* a field entry {"value": v, "raw_context": ..., "confidence": ..., "source": ...}
Field(v) ==
    PyDict([value |-> v, raw_context |-> v,
            confidence |-> PyStr(S_High), source |-> PyStr(S_Regex)])

\* the entry of an absent field, as _get_empty_extraction builds it
EmptyField ==
    PyDict([value |-> PyNone, raw_context |-> PyNone,
            confidence |-> PyStr(S_Low), source |-> PyStr(S_NoSource)])

\* a document with all ten field keys: the given values, None elsewhere
Document(given) ==
    PyDict([f \in FieldNames |->
               IF f \in DOMAIN given THEN Field(given[f]) ELSE EmptyField])

\* a structured address; <<>> stands for an absent component
Address(house, street, city, state, pincode) ==
    LET opt(x) == IF x = <<>> THEN PyNone ELSE PyStr(x[1])
    IN  PyDict([house |-> opt(house), street |-> opt(street), city |-> opt(city),
                state |-> opt(state), pincode |-> opt(pincode)])

Addr1 == Address(<<S_House1>>, <<S_Street1>>, <<S_Pune>>, <<S_Maharashtra>>, <<S_Pin1>>)

\* the same (city, state, pincode) as Addr1 up to case and blanks; other house, street
Addr2 == Address(<<S_House2>>, <<S_Street2>>, <<S_PuneVar>>, <<S_MaharashtraVar>>,
                 <<S_Pin1Var>>)

\* another city
Addr3 == Address(<<S_House1>>, <<S_Street1>>, <<S_Mumbai>>, <<S_Maharashtra>>, <<S_Pin1>>)

\* no state
Addr4 == Address(<<S_House1>>, <<S_Street1>>, <<S_Pune>>, <<>>, <<S_Pin1>>)

NameInputs == {S_JohnDoe, S_DoeJohn, S_JohnJohnDoe, S_JaneDoe, <<>>}

DobInputs == {S_Dob1, S_Dob2}

AddressInputs == {Addr1, Addr2, Addr3, Addr4, PyStr(S_AddrText)}

PhoneInputs == {S_Phone1, S_Phone2, S_Phone3, S_Phone4}

FatherInputs == {S_RamDoe, S_JaneDoe}

PanInputs == {S_Pan1, S_Pan2, S_Pan3, S_Pan4}

AadhaarInputs == {S_Aadhaar1, S_Aadhaar2, S_Aadhaar3}

\* documents in which one field was extracted
SingleFieldDocuments ==
    {Document([full_name |-> PyStr(s)]) : s \in NameInputs}
    \cup {Document([date_of_birth |-> PyStr(s)]) : s \in DobInputs}
    \cup {Document([address |-> a]) : a \in AddressInputs}
    \cup {Document([phone_number |-> PyStr(s)]) : s \in PhoneInputs}
    \cup {Document([father_name |-> PyStr(s)]) : s \in FatherInputs}
    \cup {Document([pan_number |-> PyStr(s)]) : s \in PanInputs}
    \cup {Document([aadhaar_number |-> PyStr(s)]) : s \in AadhaarInputs}

\* documents in which several fields were extracted
MultiFieldDocuments ==
    { Document([full_name |-> PyStr(S_JohnDoe), date_of_birth |-> PyStr(S_Dob1)]),
      Document([full_name |-> PyStr(S_johnDOE), date_of_birth |-> PyStr(S_Dob1)]),
      Document([full_name |-> PyStr(S_JaneDoe), date_of_birth |-> PyStr(S_Dob2)]),
      Document([full_name |-> PyStr(S_JohnDoe), father_name |-> PyStr(S_RamDoe),
                date_of_birth |-> PyStr(S_Dob1), address |-> Addr1,
                phone_number |-> PyStr(S_Phone1), email_address |-> PyStr(S_Email),
                aadhaar_number |-> PyStr(S_Aadhaar1), pan_number |-> PyStr(S_Pan1),
                employee_id |-> PyStr(S_EmpId), account_number |-> PyStr(S_Account)]),
      Document([full_name |-> PyStr(S_DoeJohn), father_name |-> PyStr(S_DoeRam),
                date_of_birth |-> PyStr(S_Dob1), address |-> Addr2,
                phone_number |-> PyStr(S_Phone2), aadhaar_number |-> PyStr(S_Aadhaar1),
                pan_number |-> PyStr(S_Pan1)]) }

\* the per-document extractions of a PersonExtraction
DocumentInputs == {Document(<<>>)} \cup SingleFieldDocuments \cup MultiFieldDocuments

-----------------------------------------------------------------------------
(* Specification *)

Next ==
    \/ \E doc_type \in DocTypes : \E doc_extracted \in DocumentInputs :
           ExtractDocument(doc_type, doc_extracted)
    \/ VerifyPerson

Spec == Init /\ [][Next]_vars

TypeOK ==
    /\ DOMAIN extracted_data \subseteq DocTypes
    /\ pc \in {"extract", "done"}
    /\ overall_status \in {"UNSET", "VERIFIED", "FAILED"}
    /\ verify_log \in {"UNSET", "VERIFIED", "FAILED"}
    /\ pc = "done" /\ verify_error = "none" => DOMAIN verification_results = RuleIds

-----------------------------------------------------------------------------
(* Verification of extractions the data model does not allow *)

\* an empty extraction whose entry for one field is replaced
WithEntry(field, entry) ==
    PyDict([f \in FieldNames |-> IF f = field THEN entry ELSE EmptyField])

\* documents with missing keys, entries that are no mapping, values of another type
MalformedInputs ==
    { Document(<<>>),
      Document([full_name |-> PyStr(S_JohnDoe), date_of_birth |-> PyStr(S_Dob1)]),
      PyDict([full_name |-> Field(PyStr(S_JohnDoe))]),
      PyDict(<<>>),
      WithEntry("full_name", PyNone),
      WithEntry("email_address", PyNone),
      WithEntry("phone_number", PyStr(S_Phone1)),
      Document([full_name |-> PyInt(42)]),
      Document([phone_number |-> PyInt(98765)]),
      Document([pan_number |-> PyInt(12345)]),
      Document([aadhaar_number |-> PyInt(1234)]),
      Document([address |-> PyStr(S_AddrText)]),
      Document([address |-> PyInt(7)]) }

NextMalformed ==
    \/ \E doc_type \in DocTypes : \E doc_extracted \in MalformedInputs :
           ExtractDocument(doc_type, doc_extracted)
    \/ VerifyPerson

SpecMalformed == Init /\ [][NextMalformed]_vars

-----------------------------------------------------------------------------
(* Calls of the field normalizers *)

S_PhoneDash == <<"+", "9", "1", "-", "9", "8", "7", "6", "5", "4", "3", "2", "1", "0">>
S_PhoneZero == <<"0", "9", "8", "7", "6", "5", "4", "3", "2", "1", "0">>
S_PhoneShort == <<"1", "2", "3">>
S_PhoneAlpha == <<"a", "b", "c", "d", "e", "f">>
S_AadhaarSpaced == <<"1", "2", "3", "4", " ", "5", "6", "7", "8", " ", "9", "0", "1", "2">>
S_PanSpaced == <<"a", "b", " ", "d", "e", " ", "1", "2", "3", "4", " ", "f">>
S_PanOI == <<"A", "O", "I", "D", "E", "1", "2", "3", "4", "F">>
S_PanLong == <<"A", "B", "C", "D", "E", "1", "2", "3", "4", "F", "X", "Y">>

\* the raw inputs: None, the empty string, the strings of the documents and
\* phone numbers and PANs as a scan may give them
RawInputs ==
    {PyNone, PyStr(<<>>)}
    \cup {PyStr(s) : s \in NameInputs \cup DobInputs \cup PhoneInputs \cup FatherInputs
                          \cup PanInputs \cup AadhaarInputs}
    \cup {PyStr(s) : s \in {S_johnDOE, S_DoeRam, S_House1, S_House2, S_Street1,
                            S_Street2, S_Pune, S_PuneVar, S_Mumbai, S_Maharashtra,
                            S_MaharashtraVar, S_Pin1, S_Pin1Var, S_AddrText, S_Email,
                            S_EmpId, S_Account, S_High, S_Low, S_Regex, S_NoSource,
                            S_PhoneDash, S_PhoneZero, S_PhoneShort, S_PhoneAlpha,
                            S_PanSpaced, S_PanOI, S_PanLong, S_AadhaarSpaced}}

S_DateAug1 == <<"1", "5", "-", "A", "u", "g", "-", "1", "9", "4", "7">>
S_DateAug2 == <<"1", "5", " ", "A", "u", "g", " ", "1", "9", "4", "7">>
S_DateAug3 == <<"A", "u", "g", "u", "s", "t", " ", "1", "5", ",", " ", "1", "9", "4", "7">>
S_DateAug4 == <<"1", "5", " ", "A", "u", "g", "u", "s", "t", " ", "1", "9", "4", "7">>
S_DateFeb31 == <<"3", "1", " ", "F", "e", "b", " ", "2", "0", "2", "0">>
S_DateMarble == <<"1", "5", " ", "M", "a", "r", "b", "l", "e", " ", "2", "0", "2", "0">>
S_DateXyz == <<"1", "5", " ", "X", "y", "z", " ", "2", "0", "2", "0">>
S_DateAugury == <<"1", "5", "-", "A", "u", "g", "u", "r", "y", "-", "1", "9", "4", "7">>
S_DateAug47 == <<"1", "5", "-", "A", "u", "g", "-", "4", "7">>
S_DateShort == <<"5", "/", "8", "/", "4", "7">>
S_DateFeb30 == <<"F", "e", "b", " ", "3", "0", ",", " ", "2", "0", "2", "0">>
S_Invalid == <<"i", "n", "v", "a", "l", "i", "d">>

\* the days, months and years of the numeric date inputs
DayInputs == {<<"0", "1">>, <<"1", "5">>, <<"2", "9">>, <<"3", "1">>, <<"3", "2">>}

MonthInputs == {<<"0", "2">>, <<"0", "8">>, <<"1", "3">>}

YearInputs == {<<"1", "9", "4", "7">>, <<"2", "0", "1", "5">>, <<"2", "0", "2", "0">>,
               <<"2", "0", "2", "1">>}

\* DD-MM-YYYY and DD/MM/YYYY
DmyInputs ==
    {d \o <<sep>> \o m \o <<sep>> \o y :
        d \in DayInputs, m \in MonthInputs, y \in YearInputs, sep \in {"-", "/"}}

\* YYYY-MM-DD
YmdInputs ==
    {y \o <<"-">> \o m \o <<"-">> \o d :
        d \in DayInputs, m \in MonthInputs, y \in YearInputs}

\* dates with a month name, and text without a date
TextDateInputs ==
    {S_DateAug1, S_DateAug2, S_DateAug3, S_DateAug4, S_DateFeb31, S_DateMarble,
     S_DateXyz, S_DateAugury, S_DateAug47, S_DateShort, S_DateFeb30, S_Invalid}

DateInputs ==
    {PyNone, PyStr(<<>>)}
    \cup {PyStr(s) : s \in DmyInputs \cup YmdInputs \cup TextDateInputs}

S_EmpDash == <<"E", "M", "P", "-", "1", "2", "3">>
S_IdUnder == <<"I", "D", "_", "1", "2", "3">>
S_StaffSpace == <<"S", "T", "A", "F", "F", " ", "1", "2", "3">>
S_EmployeeDash == <<"E", "M", "P", "L", "O", "Y", "E", "E", "-", "1", "2", "3">>
S_EmployeeLower == <<"e", "m", "p", "l", "o", "y", "e", "e", "_", "7", "7">>
S_EmpOne == <<"E", "M", "P", "-", "1">>
S_EmpOil == <<"e", "m", "p", "-", "o", "i", "l">>
S_123 == <<"1", "2", "3">>

\* employee ids as a letter may print them
EmployeeIdInputs ==
    {PyNone, PyStr(<<>>)}
    \cup {PyStr(s) : s \in {S_EmpDash, S_IdUnder, S_StaffSpace, S_EmployeeDash,
                            S_EmployeeLower, S_EmpOne, S_EmpOil, S_EmpId, S_123}}

NormalizeEmployeeId(raw) ==
    /\ pc = "extract"
    /\ call' = [fn |-> "normalize_employee_id", arg |-> raw,
                out |-> normalize_employee_id(raw)]
    /\ UNCHANGED <<extracted_data, pc, verification_results, overall_status,
                   verify_log, verify_error>>

S_EmailUpper == <<"J", "D", "@", "X", ".", "I", "N">>
S_EmailSpace == <<"j", " ", "d", "@", "x", ".", "i", "n">>
S_EmailDots2 == <<"j", ".", ".", "d", "@", "x", ".", "i", "n">>
S_EmailDots3 == <<"j", ".", ".", ".", "d", "@", "x", ".", "i", "n">>
S_EmailNoTld == <<"j", "d", "@", "x">>
S_EmailTwoAt == <<"a", "@", "b", "@", "c", ".", "i", "n">>
S_EmailGma1l == <<"j", "d", "@", "g", "m", "a", "1", "l", ".", "c", "o", "m">>
S_EmailDomDots == <<"j", "d", "@", "x", ".", ".", ".", "i", "n">>

\* email addresses as a scan may give them
EmailInputs ==
    {PyNone, PyStr(<<>>)}
    \cup {PyStr(s) : s \in {S_Email, S_EmailUpper, S_EmailSpace, S_EmailDots2,
                            S_EmailDots3, S_EmailNoTld, S_EmailTwoAt, S_EmailGma1l,
                            S_EmailDomDots, S_Invalid}}

NormalizeEmail(raw) ==
    /\ pc = "extract"
    /\ call' = [fn |-> "normalize_email", arg |-> raw, out |-> normalize_email(raw)]
    /\ UNCHANGED <<extracted_data, pc, verification_results, overall_status,
                   verify_log, verify_error>>

NormalizeDate(raw) ==
    /\ pc = "extract"
    /\ call' = [fn |-> "normalize_date", arg |-> raw, out |-> normalize_date(raw)]
    /\ UNCHANGED <<extracted_data, pc, verification_results, overall_status,
                   verify_log, verify_error>>

NormalizePhone(raw) ==
    /\ pc = "extract"
    /\ call' = [fn |-> "normalize_phone", arg |-> raw, out |-> normalize_phone(raw)]
    /\ UNCHANGED <<extracted_data, pc, verification_results, overall_status,
                   verify_log, verify_error>>

NormalizePan(raw) ==
    /\ pc = "extract"
    /\ call' = [fn |-> "normalize_pan", arg |-> raw, out |-> normalize_pan(raw)]
    /\ UNCHANGED <<extracted_data, pc, verification_results, overall_status,
                   verify_log, verify_error>>

NormalizeAadhaar(raw) ==
    /\ pc = "extract"
    /\ call' = [fn |-> "normalize_aadhaar", arg |-> raw, out |-> normalize_aadhaar(raw)]
    /\ UNCHANGED <<extracted_data, pc, verification_results, overall_status,
                   verify_log, verify_error>>

NextNormalize ==
    \/ \E raw \in RawInputs :
           \/ NormalizePhone(raw)
           \/ NormalizePan(raw)
           \/ NormalizeAadhaar(raw)
    \/ \E raw \in DateInputs : NormalizeDate(raw)
    \/ \E raw \in EmployeeIdInputs : NormalizeEmployeeId(raw)
    \/ \E raw \in EmailInputs : NormalizeEmail(raw)

SpecNormalize == Init /\ [][NextNormalize]_vars

-----------------------------------------------------------------------------
(* Calls of the confusion corrector *)

S_I0S == <<"I", "0", "S">>
S_J0hnD0e == <<"J", "0", "h", "n", " ", "D", "0", "e">>
S_PhoneO == <<"9", "8", "7", "6", "5", " ", "4", "3", "2", "1", "O">>

HintNumeric == PyStr(<<"n", "u", "m", "e", "r", "i", "c">>)

HintAlpha == PyStr(<<"a", "l", "p", "h", "a">>)

HintAlphanumeric ==
    PyStr(<<"a", "l", "p", "h", "a", "n", "u", "m", "e", "r", "i", "c">>)

HintInputs == {HintNumeric, HintAlpha, HintAlphanumeric, PyNone}

TextInputs == RawInputs \cup {PyStr(S_I0S), PyStr(S_J0hnD0e), PyStr(S_PhoneO), PyInt(7)}

CorrectText(text, field_hint) ==
    /\ pc = "extract"
    /\ call' = [fn |-> "correct_text", arg |-> text, hint |-> field_hint,
                out |-> Return(correct_text(text, field_hint))]
    /\ UNCHANGED <<extracted_data, pc, verification_results, overall_status,
                   verify_log, verify_error>>

\* a document whose string values hold confusable characters
ConfusableDocument ==
    Document([full_name |-> PyStr(S_J0hnD0e), father_name |-> PyStr(S_RamDoe),
              date_of_birth |-> PyStr(S_Dob1), address |-> Addr1,
              phone_number |-> PyStr(S_PhoneO), email_address |-> PyStr(S_I0S),
              aadhaar_number |-> PyStr(S_AadhaarSpaced), pan_number |-> PyStr(S_PanOI),
              employee_id |-> PyStr(S_I0S), account_number |-> PyStr(S_I0S)])

\* per-document field mappings, well-formed or not, and arguments that are no dict
CorrectionInputs ==
    DocumentInputs \cup MalformedInputs
    \cup {ConfusableDocument, PyDict([note |-> Field(PyStr(S_I0S))]),
          PyNone, PyStr(S_I0S), PyInt(7)}

ApplyConfusionCorrections(extracted) ==
    /\ pc = "extract"
    /\ call' = [fn |-> "apply_confusion_corrections", arg |-> extracted,
                out |-> apply_confusion_corrections(<<extracted>>)]
    /\ UNCHANGED <<extracted_data, pc, verification_results, overall_status,
                   verify_log, verify_error>>

NextCorrect ==
    \/ \E text \in TextInputs : \E field_hint \in HintInputs :
           CorrectText(text, field_hint)
    \/ \E extracted \in CorrectionInputs : ApplyConfusionCorrections(extracted)

SpecCorrect == Init /\ [][NextCorrect]_vars

-----------------------------------------------------------------------------
(* Entity extraction (verifier/extract) and its step of process_person *)

S_OcrText == <<"N", "a", "m", "e", " ", "J", "o", "h", "n">>
S_Groq == <<"g", "r", "o", "q">>
S_GroqFallback == <<"g", "r", "o", "q", "_", "f", "a", "l", "l", "b", "a", "c", "k">>
S_Medium == <<"m", "e", "d", "i", "u", "m">>

\* True and False (bool is a subclass of int)
PyTrue == PyInt(1)

PyFalse == PyInt(0)

\* GroqExtractor._get_empty_extraction: ten entries {"value": None, "raw_context": None}
GroqEmptyField == PyDict([value |-> PyNone, raw_context |-> PyNone])

GroqEmptyExtraction == PyDict([f \in FieldNames |-> GroqEmptyField])

\* GroqExtractor._validate_extraction: the ten expected fields, each the parsed
\* entry if that is a dict and the empty entry otherwise
validate_extraction(parsed) ==
    PyDict([f \in FieldNames |->
               IF f \in DOMAIN parsed.d /\ parsed.d[f].t = "dict"
               THEN parsed.d[f] ELSE GroqEmptyField])

\* entry.update({...}) for the entries with a truthy value
Tagged(extraction, source, confidence) ==
    PyDict([f \in DOMAIN extraction.d |->
               IF Truthy(DictGet(extraction.d[f], "value", PyNone))
               THEN PyDict([k \in DOMAIN extraction.d[f].d \cup {"source", "confidence"} |->
                               IF k = "source" THEN PyStr(source)
                               ELSE IF k = "confidence" THEN PyStr(confidence)
                               ELSE extraction.d[f].d[k]])
               ELSE extraction.d[f]])

\* GroqExtractor._extract_fields_fallback: the empty extraction with the values
\* the field patterns found in the response text
extract_fields_fallback(found) ==
    PyDict([f \in FieldNames |->
               IF f \in DOMAIN found
               THEN PyDict([value |-> found[f], raw_context |-> PyNone,
                            source |-> PyStr(S_GroqFallback),
                            confidence |-> PyStr(S_Medium)])
               ELSE GroqEmptyField])

\* extract_with_groq on the outcome of the API call: the client cannot be
\* created (the exception leaves extract_with_groq), the request fails, the
\* response is no JSON (found: the values the field patterns match), or the
\* response parses to a JSON value
extract_with_groq(response) ==
    CASE response.kind = "no_client" -> Raise("Exception")
      [] response.kind = "api_error" -> Return(GroqEmptyExtraction)
      [] response.kind = "not_json" ->
             Return(Tagged(extract_fields_fallback(response.found), S_Groq, S_High))
      [] response.kind = "json" ->
             IF response.parsed.t # "dict" THEN Return(GroqEmptyExtraction)
             ELSE Return(Tagged(validate_extraction(response.parsed), S_Groq, S_High))

\* regex_extractors._get_empty_extraction
EmptyExtraction == PyDict([f \in FieldNames |-> EmptyField])

\* the loop over ocr_results.items() of extract_entities (lines 39-44); a result
\* that is no mapping has no get
RECURSIVE FirstOcrText(_)
FirstOcrText(items) ==
    IF items = <<>> THEN Return(PyStr(<<>>))
    ELSE IF Head(items)[2].t # "dict" THEN Raise("AttributeError")
    ELSE IF /\ Truthy(DictGet(Head(items)[2], "success", PyNone))
            /\ Truthy(DictGet(Head(items)[2], "raw_text", PyNone))
         THEN Return(DictGet(Head(items)[2], "raw_text", PyStr(<<>>)))
         ELSE FirstOcrText(Tail(items))

\* the OCR text extract_entities works on (lines 26-44); ocr_results is the
\* sequence of its items, and len(ocr_text) of line 31 needs a str
OcrText(ocr_results) ==
    LET has(engine) == \E i \in DOMAIN ocr_results : ocr_results[i][1] = engine
        result(engine) ==
            ocr_results[CHOOSE i \in DOMAIN ocr_results : ocr_results[i][1] = engine][2]
        preferred(engine) ==
            IF result(engine).t # "dict" THEN Raise("AttributeError")
            ELSE IF DictGet(result(engine), "raw_text", PyStr(<<>>)).t # "str"
            THEN Raise("TypeError")
            ELSE IF Truthy(DictGet(result(engine), "raw_text", PyStr(<<>>)))
            THEN Return(DictGet(result(engine), "raw_text", PyStr(<<>>)))
            ELSE FirstOcrText(ocr_results)
        succeeded(engine) ==
            result(engine).t # "dict" \/ Truthy(DictGet(result(engine), "success", PyNone))
    IN  IF has("mistral") /\ succeeded("mistral") THEN preferred("mistral")
        ELSE IF has("mistral_enhanced") /\ succeeded("mistral_enhanced")
        THEN preferred("mistral_enhanced")
        ELSE FirstOcrText(ocr_results)

\* sum(1 for field in extracted.values() if field.get('value'))
ExtractedCount(extracted) ==
    Cardinality({f \in DOMAIN extracted.d :
                    Truthy(DictGet(extracted.d[f], "value", PyNone))})

\* extract_entities(ocr_results, doc_type, use_groq, groq_api_key, groq_model);
\* use_groq stands for `use_groq and groq_api_key`
extract_entities(ocr_results, use_groq, response) ==
    LET ocr_text == OcrText(ocr_results)
        groq == extract_with_groq(response)
    IN  IF ocr_text.exc # "none" THEN ocr_text
        ELSE IF ~Truthy(ocr_text.value) THEN Return(EmptyExtraction)
        ELSE IF use_groq /\ groq.exc = "none" /\ ExtractedCount(groq.value) > 0
        THEN groq
        ELSE Return(EmptyExtraction)

\* lines 159-173 of process_person for one document; the name
\* _get_empty_extraction of the except branch is bound neither in the method nor
\* in the module (it is an attribute of the class), so the branch raises NameError
ProcessDocument(doc_type, ocr_results, use_groq, response) ==
    /\ pc = "extract"
    /\ doc_type \notin DOMAIN extracted_data
    /\ LET out == extract_entities(ocr_results, use_groq, response)
       IN  IF out.exc = "none"
           THEN /\ extracted_data' =
                       [d \in DOMAIN extracted_data \cup {doc_type} |->
                           IF d = doc_type THEN out.value ELSE extracted_data[d]]
                /\ pc' = pc
                /\ call' = [fn |-> "extract_entities", doc_type |-> doc_type, out |-> out]
           ELSE /\ extracted_data' = extracted_data
                /\ pc' = "raised"
                /\ call' = [fn |-> "process_person", doc_type |-> doc_type,
                            out |-> Raise("NameError")]
    /\ UNCHANGED <<verification_results, overall_status, verify_log, verify_error>>

\* the result of an OCR engine
OcrResult(success, raw_text) == PyDict([success |-> success, raw_text |-> PyStr(raw_text)])

\* ocr_results as process_person may pass it, and one with a result that is no
\* mapping
OcrInputs ==
    { <<>>,
      << <<"mistral", OcrResult(PyTrue, S_OcrText)>> >>,
      << <<"mistral", OcrResult(PyFalse, <<>>)>>,
         <<"mistral_enhanced", OcrResult(PyTrue, S_OcrText)>> >>,
      << <<"mistral", OcrResult(PyFalse, <<>>)>>,
         <<"tesseract", OcrResult(PyTrue, S_OcrText)>> >>,
      << <<"mistral", OcrResult(PyTrue, <<>>)>>,
         <<"easyocr", OcrResult(PyTrue, S_OcrText)>> >>,
      << <<"tesseract", OcrResult(PyFalse, <<>>)>>,
         <<"easyocr", OcrResult(PyFalse, <<>>)>> >>,
      << <<"mistral", PyNone>> >>,
      << <<"tesseract", OcrResult(PyFalse, <<>>)>>, <<"easyocr", PyNone>> >> }

\* what the language model may answer
ResponseInputs ==
    { [kind |-> "no_client"], [kind |-> "api_error"],
      [kind |-> "not_json", found |-> <<>>],
      [kind |-> "not_json", found |-> [full_name |-> PyStr(S_JohnDoe)]],
      [kind |-> "json", parsed |-> PyInt(7)],
      [kind |-> "json", parsed |-> PyDict(<<>>)],
      [kind |-> "json", parsed |-> PyDict([full_name |-> PyStr(S_JohnDoe)])],
      [kind |-> "json",
       parsed |-> PyDict([full_name |-> PyDict([value |-> PyNone,
                                                raw_context |-> PyNone])])],
      [kind |-> "json",
       parsed |-> PyDict([full_name |-> PyDict([value |-> PyStr(S_JohnDoe),
                                                raw_context |-> PyStr(S_OcrText)]),
                          pan_number |-> PyDict(<<>>),
                          nickname |-> PyDict([value |-> PyStr(S_JaneDoe)])])],
      [kind |-> "json",
       parsed |-> PyDict([date_of_birth |-> PyDict([value |-> PyStr(S_Dob1)]),
                          address |-> PyDict([value |-> Addr1])])] }

NextExtract ==
    \E doc_type \in DocTypes : \E ocr_results \in OcrInputs :
        \E use_groq \in BOOLEAN : \E response \in ResponseInputs :
            ProcessDocument(doc_type, ocr_results, use_groq, response)

SpecExtract == Init /\ [][NextExtract]_vars

-----------------------------------------------------------------------------
(* Properties *)

\* the value of a field in a collected document (every document of Spec has
\* all ten field keys)
ValueOf(doc, field) == extracted_data[doc].d[field].d["value"]

\* the documents that carry a value for the field: neither None nor empty
Carrying(field) ==
    {doc \in DOMAIN extracted_data : ValueOf(doc, field) \notin {PyNone, PyStr(<<>>)}}

\* the documents whose value for the field is not None
NonNull(field) == {doc \in DOMAIN extracted_data : ValueOf(doc, field) # PyNone}

\* the number of non-null field values across all documents
NonNullFieldCount ==
    Cardinality({p \in (DOMAIN extracted_data) \X FieldNames : ValueOf(p[1], p[2]) # PyNone})

Verified == pc = "done" /\ verify_error = "none"

StatusOf(rule) == verification_results[rule].status

TargetField(rule) ==
    CASE rule = "rule_1_name_match"        -> "full_name"
      [] rule = "rule_2_dob_match"         -> "date_of_birth"
      [] rule = "rule_3_address_match"     -> "address"
      [] rule = "rule_4_phone_match"       -> "phone_number"
      [] rule = "rule_5_father_name_match" -> "father_name"
      [] rule = "rule_6_pan_format"        -> "pan_number"
      [] rule = "rule_7_aadhaar_format"    -> "aadhaar_number"

Mentions(reason, words) == \E i \in DOMAIN reason : reason[i] \in words

MentionsInsufficient(reason) ==
    Mentions(reason, {"Insufficient", "insufficient", "INSUFFICIENT"})

\* a PAN of exactly 5 letters, 4 digits and 1 letter
WellFormedPan(s) ==
    /\ Len(s) = 10
    /\ \A i \in {1, 2, 3, 4, 5, 10} : IsAlphaChar(s[i])
    /\ \A i \in 6..9 : IsDigitChar(s[i])

\* an Aadhaar of exactly 12 digits
WellFormedAadhaar(s) == Len(s) = 12 /\ \A i \in DOMAIN s : IsDigitChar(s[i])

\* C1: no call of a field normalizer on a string or None ends in an exception;
\* every call returns a canonical value or None.
C1_NormalizersNeverRaise == call.fn # "none" => call.out.exc = "none"

\* C2: verify_person never raises for missing or malformed field data: whatever
\* the documents hold, verification completes and each of the seven rules has a
\* result with status PASS or FAIL and a reason.
C2_VerifyNeverRaises ==
    pc = "done" =>
        /\ verify_error = "none"
        /\ DOMAIN verification_results = RuleIds
        /\ \A rule \in RuleIds :
               /\ StatusOf(rule) \in {"PASS", "FAIL"}
               /\ verification_results[rule].reason # <<>>

\* C3: the value verify_person returns carries the seven rule results and, in
\* addition, an overall_status that is VERIFIED or FAILED.
C3_ReturnsOutcome ==
    Verified =>
        /\ DOMAIN verification_results = RuleIds \cup {"overall_status"}
        /\ verification_results["overall_status"] \in {"VERIFIED", "FAILED"}

\* C4: whenever fewer than 5 field values are non-null across all documents,
\* the overall status is FAILED, both as verify_person computes it and as
\* process_person reports it, whatever the rule results are.
C4_OverallStatusFloor ==
    Verified /\ NonNullFieldCount < 5 =>
        /\ overall_status = "FAILED"
        /\ verify_log = "FAILED"

\* C4 witness: fewer than 5 non-null values, name and DOB rules both PASS, FAILED.
C4_Witness ==
    /\ Verified
    /\ NonNullFieldCount < 5
    /\ StatusOf("rule_1_name_match") = "PASS"
    /\ StatusOf("rule_2_dob_match") = "PASS"
    /\ overall_status = "FAILED"
    /\ verify_log = "FAILED"

\* C5: with at least 5 non-null field values and rules 1 and 2 both PASS, the
\* overall status reported for the person is VERIFIED even when other rules
\* FAIL; it is FAILED only when a key rule fails or the floor applies.
C5_KeyRuleSufficiency ==
    Verified =>
        /\ (/\ NonNullFieldCount >= 5
            /\ StatusOf("rule_1_name_match") = "PASS"
            /\ StatusOf("rule_2_dob_match") = "PASS")
           => overall_status = "VERIFIED"
        /\ overall_status = "FAILED"
           => \/ NonNullFieldCount < 5
              \/ StatusOf("rule_1_name_match") # "PASS"
              \/ StatusOf("rule_2_dob_match") # "PASS"

\* C6 as stated: for each of the seven rules, fewer than 2 documents with a
\* non-null value for the rule's field give FAIL with a reason that mentions
\* "insufficient".
C6_InsufficiencyGateAllRules ==
    Verified =>
        \A rule \in RuleIds :
            Cardinality(NonNull(TargetField(rule))) < 2 =>
                /\ StatusOf(rule) = "FAIL"
                /\ MentionsInsufficient(verification_results[rule].reason)

\* C6 as amended: for each of the five comparison rules (1 to 5), fewer than 2
\* documents with a non-null value give FAIL with a reason that mentions
\* "insufficient"; the format rules 6 and 7 FAIL, with the reason "No ... numbers
\* found", when no document has a value, and with a single document the format
\* of its value decides.
C6_InsufficiencyGate ==
    Verified =>
        /\ \A rule \in RuleIds \ {"rule_6_pan_format", "rule_7_aadhaar_format"} :
               Cardinality(NonNull(TargetField(rule))) < 2 =>
                   /\ StatusOf(rule) = "FAIL"
                   /\ MentionsInsufficient(verification_results[rule].reason)
        /\ \A rule \in {"rule_6_pan_format", "rule_7_aadhaar_format"} :
               /\ NonNull(TargetField(rule)) = {} =>
                      /\ StatusOf(rule) = "FAIL"
                      /\ Mentions(verification_results[rule].reason, {"No"})
                      /\ Mentions(verification_results[rule].reason, {"found"})
               /\ \A doc \in DOMAIN extracted_data :
                      NonNull(TargetField(rule)) = {doc} =>
                          (StatusOf(rule) = "PASS" <=>
                              IF rule = "rule_6_pan_format"
                              THEN WellFormedPan(ValueOf(doc, "pan_number").s)
                              ELSE WellFormedAadhaar(ValueOf(doc, "aadhaar_number").s))

\* C6 witness: exactly one document has a name, and one has a well-formed PAN.
C6_Witness ==
    /\ Verified
    /\ Cardinality(NonNull("full_name")) = 1
    /\ StatusOf("rule_1_name_match") = "FAIL"
    /\ Cardinality(NonNull("pan_number")) = 1
    /\ StatusOf("rule_6_pan_format") = "PASS"

\* sorted(tokens) for a list of str, duplicates kept
RECURSIVE InsertToken(_, _)
InsertToken(x, sorted) ==
    IF sorted = <<>> THEN <<x>>
    ELSE IF StrLess(Head(sorted), x) THEN <<Head(sorted)>> \o InsertToken(x, Tail(sorted))
    ELSE <<x>> \o sorted

RECURSIVE SortTokens(_)
SortTokens(tokens) ==
    IF tokens = <<>> THEN <<>> ELSE InsertToken(Head(tokens), SortTokens(Tail(tokens)))

\* the normalized form C7 states: lowercase, split, sort the tokens, rejoin
StatedNormalizedName(name) == JoinSpace(SortTokens(Split(Lower(name))))

\* the set of lowercased tokens of a name
TokenSet(name) == Range(Split(Lower(name)))

\* C7 as stated: with at least 2 documents carrying a full_name, rule 1 is PASS
\* if and only if the names, each lowercased, split into tokens, sorted and
\* rejoined, are all identical.
C7_NameMatchSortedTokens ==
    Verified /\ Cardinality(Carrying("full_name")) >= 2 =>
        (StatusOf("rule_1_name_match") = "PASS" <=>
            Cardinality({StatedNormalizedName(ValueOf(doc, "full_name").s) :
                            doc \in Carrying("full_name")}) = 1)

\* C7 as amended: with at least 2 documents carrying a non-empty full_name, each
\* name is lowercased, split into whitespace-separated tokens, its duplicate
\* tokens dropped, the tokens sorted and rejoined, and rule 1 is PASS if and
\* only if these forms are all identical, that is, if and only if the names
\* have the same set of lowercased tokens; identical names and a
\* token-reordered variant ("Doe John" vs "John Doe") PASS.
C7_NameMatch ==
    Verified /\ Cardinality(Carrying("full_name")) >= 2 =>
        /\ StatusOf("rule_1_name_match") \in {"PASS", "FAIL"}
        /\ StatusOf("rule_1_name_match") = "PASS" <=>
               \A d1, d2 \in Carrying("full_name") :
                   TokenSet(ValueOf(d1, "full_name").s) = TokenSet(ValueOf(d2, "full_name").s)
        /\ verification_results["rule_1_name_match"].values =
               [doc \in Carrying("full_name") |-> ValueOf(doc, "full_name")]

\* C7 witness: "John Doe" and "Doe John" in two documents, and rule 1 PASS.
C7_Witness ==
    /\ Verified
    /\ \E d1, d2 \in Carrying("full_name") :
           /\ ValueOf(d1, "full_name").s = S_JohnDoe
           /\ ValueOf(d2, "full_name").s = S_DoeJohn
    /\ StatusOf("rule_1_name_match") = "PASS"

\* C8: with at least 2 documents carrying a date_of_birth, rule 2 is PASS if and
\* only if all those values are equal as strings, and FAIL otherwise; the same
\* date written in two formats FAILs.
C8_DobMatch ==
    Verified /\ Cardinality(Carrying("date_of_birth")) >= 2 =>
        /\ StatusOf("rule_2_dob_match") \in {"PASS", "FAIL"}
        /\ StatusOf("rule_2_dob_match") = "PASS" <=>
               \A d1, d2 \in Carrying("date_of_birth") :
                   ValueOf(d1, "date_of_birth").s = ValueOf(d2, "date_of_birth").s

\* C8 witness: one date written as 1990-08-15 and as 15-08-1990, and rule 2 FAIL.
C8_Witness ==
    /\ Verified
    /\ \E d1, d2 \in Carrying("date_of_birth") :
           /\ ValueOf(d1, "date_of_birth").s = S_Dob1
           /\ ValueOf(d2, "date_of_birth").s = S_Dob2
    /\ StatusOf("rule_2_dob_match") = "FAIL"

\* a component of a structured address is present: a string that is not blank
HasComponent(address, k) == address.d[k].t = "str" /\ Strip(address.d[k].s) # <<>>

\* the structured addresses whose city, state and pincode are all present
CompleteAddressDocs ==
    {doc \in Carrying("address") :
        /\ ValueOf(doc, "address").t = "dict"
        /\ \A k \in {"city", "state", "pincode"} : HasComponent(ValueOf(doc, "address"), k)}

\* the (city, state, pincode) triple: city and state lowercased, all three stripped
Triple(address) ==
    <<Strip(Lower(address.d["city"].s)), Strip(Lower(address.d["state"].s)),
      Strip(address.d["pincode"].s)>>

CompleteTriples == {Triple(ValueOf(doc, "address")) : doc \in CompleteAddressDocs}

\* the extraction with house and street removed from every structured address
WithoutHouseAndStreet ==
    [doc \in DOMAIN extracted_data |->
        IF ValueOf(doc, "address").t = "dict"
        THEN PyDict([extracted_data[doc].d EXCEPT !["address"] =
                 PyDict([@.d EXCEPT !["value"] =
                     PyDict([@.d EXCEPT !["house"] = PyNone, !["street"] = PyNone])])])
        ELSE extracted_data[doc]]

\* C9 as stated: with at least 2 documents carrying an address, rule 3 is PASS if
\* and only if all the complete (city, state, pincode) triples are identical.
C9_AddressMatchAllIdentical ==
    Verified /\ Cardinality(Carrying("address")) >= 2 =>
        (StatusOf("rule_3_address_match") = "PASS" <=> Cardinality(CompleteTriples) <= 1)

\* C9 as amended: with at least 2 documents carrying an address, only the
\* (city, state, pincode) triple of each structured address is compared, city
\* and state lowercased and all three stripped; triples with a missing component
\* are left out, and rule 3 is PASS if and only if at least one complete triple
\* remains and all remaining triples are identical.  House and street never
\* influence the outcome.
C9_AddressMatch ==
    Verified /\ Cardinality(Carrying("address")) >= 2 =>
        /\ StatusOf("rule_3_address_match") \in {"PASS", "FAIL"}
        /\ StatusOf("rule_3_address_match") = "PASS" <=> Cardinality(CompleteTriples) = 1
        /\ verify_address_match(WithoutHouseAndStreet).status
               = StatusOf("rule_3_address_match")

\* C9 witness: two structured addresses that differ in house, street, case and
\* blanks but not in the triple, and rule 3 PASS.
C9_Witness ==
    /\ Verified
    /\ \E d1, d2 \in Carrying("address") :
           ValueOf(d1, "address") = Addr1 /\ ValueOf(d2, "address") = Addr2
    /\ StatusOf("rule_3_address_match") = "PASS"

\* the trailing 10 characters of a 13-character "+91" string, else the string
TrailingTen(phone) ==
    IF Len(phone) = 13 /\ phone[1] = "+" /\ phone[2] = "9" /\ phone[3] = "1"
    THEN [i \in 1..10 |-> phone[i + 3]] ELSE phone

\* C10: each present phone is reduced to its trailing 10 digits when it is a
\* 13-character string starting with "+91" and is otherwise used as it is; with
\* at least 2 documents carrying a phone, rule 4 is PASS if and only if all
\* reduced values are identical.
C10_PhoneMatch ==
    Verified /\ Cardinality(Carrying("phone_number")) >= 2 =>
        /\ StatusOf("rule_4_phone_match") \in {"PASS", "FAIL"}
        /\ StatusOf("rule_4_phone_match") = "PASS" <=>
               \A d1, d2 \in Carrying("phone_number") :
                   TrailingTen(ValueOf(d1, "phone_number").s)
                       = TrailingTen(ValueOf(d2, "phone_number").s)
        /\ verification_results["rule_4_phone_match"].values =
               [doc \in Carrying("phone_number") |->
                   PyStr(TrailingTen(ValueOf(doc, "phone_number").s))]

\* C10 witness: "+919876543210" and "9876543210" in two documents, and rule 4 PASS.
C10_Witness ==
    /\ Verified
    /\ \E d1, d2 \in Carrying("phone_number") :
           /\ ValueOf(d1, "phone_number").s = S_Phone1
           /\ ValueOf(d2, "phone_number").s = S_Phone2
    /\ StatusOf("rule_4_phone_match") = "PASS"

-----------------------------------------------------------------------------
\* C11: the format rules compare nothing across documents.  Rule 6 is PASS if and
\* only if at least one document carries a PAN and every PAN carried is by itself
\* 5 letters + 4 digits + 1 letter; rule 7 is PASS if and only if at least one
\* document carries an Aadhaar and every Aadhaar carried is by itself 12 digits;
\* otherwise the rule is FAIL.
C11_FormatRules ==
    Verified =>
        /\ StatusOf("rule_6_pan_format") \in {"PASS", "FAIL"}
        /\ StatusOf("rule_7_aadhaar_format") \in {"PASS", "FAIL"}
        /\ StatusOf("rule_6_pan_format") = "PASS" <=>
               /\ Carrying("pan_number") # {}
               /\ \A doc \in Carrying("pan_number") :
                      WellFormedPan(ValueOf(doc, "pan_number").s)
        /\ StatusOf("rule_7_aadhaar_format") = "PASS" <=>
               /\ Carrying("aadhaar_number") # {}
               /\ \A doc \in Carrying("aadhaar_number") :
                      WellFormedAadhaar(ValueOf(doc, "aadhaar_number").s)

\* two documents with different well-formed PANs and different well-formed
\* Aadhaars, both rules PASS
C11_Witness ==
    /\ Verified
    /\ \E d1, d2 \in Carrying("pan_number") :
           ValueOf(d1, "pan_number") # ValueOf(d2, "pan_number")
    /\ \E d1, d2 \in Carrying("aadhaar_number") :
           ValueOf(d1, "aadhaar_number") # ValueOf(d2, "aadhaar_number")
    /\ StatusOf("rule_6_pan_format") = "PASS"
    /\ StatusOf("rule_7_aadhaar_format") = "PASS"

-----------------------------------------------------------------------------
\* the call just made was normalize_date on a string
DateCall == call.fn = "normalize_date" /\ call.arg.t = "str"

\* DD-MM-YYYY or DD/MM/YYYY: two digits, two digits, four digits, one separator
IsDmy(s) ==
    /\ Len(s) = 10
    /\ s[3] \in {"-", "/"} /\ s[6] = s[3]
    /\ \A i \in {1, 2, 4, 5, 7, 8, 9, 10} : IsDigitChar(s[i])

\* YYYY-MM-DD
IsYmd(s) ==
    /\ Len(s) = 10
    /\ s[5] = "-" /\ s[8] = "-"
    /\ \A i \in {1, 2, 3, 4, 6, 7, 9, 10} : IsDigitChar(s[i])

\* year, month and day name a date of the calendar
CalendarValid(year, month, day) ==
    /\ ToInt(year) >= 1
    /\ ToInt(month) \in 1..12
    /\ ToInt(day) >= 1
    /\ ToInt(day) <= DaysIn(ToInt(year), ToInt(month))

Canonical(year, month, day) == PyStr(year \o <<"-">> \o month \o <<"-">> \o day)

\* C12: normalize_date turns every calendar-valid DD-MM-YYYY or DD/MM/YYYY date
\* into the same date written YYYY-MM-DD, and returns None for numeric text of
\* that form that is no calendar date and for text without a date ("invalid").
C12_DateFromDmy ==
    DateCall =>
        /\ IsDmy(call.arg.s) =>
               LET day == SubSeq(call.arg.s, 1, 2)
                   month == SubSeq(call.arg.s, 4, 5)
                   year == SubSeq(call.arg.s, 7, 10)
               IN  call.out = Return(IF CalendarValid(year, month, day)
                                     THEN Canonical(year, month, day)
                                     ELSE PyNone)
        /\ call.arg.s = S_Invalid => call.out = Return(PyNone)

\* C13: normalize_date returns every calendar-valid YYYY-MM-DD string unchanged.
C13_DateIdempotent ==
    /\ DateCall
    /\ IsYmd(call.arg.s)
    /\ CalendarValid(SubSeq(call.arg.s, 1, 4), SubSeq(call.arg.s, 6, 7),
                     SubSeq(call.arg.s, 9, 10))
    => call.out = Return(call.arg)

\* the tokens of a date written with a month word: DD Month YYYY, DD-Month-YYYY,
\* Month DD, YYYY
DateTokens(s) == Split(Replace(Replace(s, "-", <<" ">>), ",", <<" ">>))

\* a date of three tokens: one word of letters, a day of one or two digits and a
\* year of four digits
HasMonthWord(s) ==
    LET tokens == DateTokens(s)
    IN  /\ Len(tokens) = 3
        /\ Cardinality({i \in 1..3 : IsAlpha(tokens[i])}) = 1
        /\ Cardinality({i \in 1..3 : IsDigit(tokens[i]) /\ Len(tokens[i]) = 4}) = 1
        /\ Cardinality({i \in 1..3 : IsDigit(tokens[i]) /\ Len(tokens[i]) <= 2}) = 1

MonthWord(s) == LET tokens == DateTokens(s)
                IN  tokens[CHOOSE i \in 1..3 : IsAlpha(tokens[i])]

YearToken(s) == LET tokens == DateTokens(s)
                IN  tokens[CHOOSE i \in 1..3 : IsDigit(tokens[i]) /\ Len(tokens[i]) = 4]

DayToken(s) == LET tokens == DateTokens(s)
               IN  tokens[CHOOSE i \in 1..3 : IsDigit(tokens[i]) /\ Len(tokens[i]) <= 2]

\* the word is an entry of the month-name table
InMonthTable(word) == \E i \in DOMAIN MONTH_MAP : MONTH_MAP[i][1] = Lower(word)

\* C14: for a date with an alphabetic token, normalize_date resolves the token
\* through the month-name table: a table entry with a calendar-valid date gives
\* that date as YYYY-MM-DD, a token that is no table entry gives None.
C14_MonthNameTable ==
    DateCall /\ HasMonthWord(call.arg.s) =>
        LET word == MonthWord(call.arg.s)
            year == YearToken(call.arg.s)
            day == ZFill(DayToken(call.arg.s), 2)
        IN  IF InMonthTable(word)
            THEN CalendarValid(year, MonthGet(Lower(word)), day) =>
                     call.out = Return(Canonical(year, MonthGet(Lower(word)), day))
            ELSE call.out = Return(PyNone)

\* C15: normalize_date does not support months written as names: a date whose
\* month is a month name normalizes to None.
C15_TextMonthsUnsupported ==
    /\ DateCall
    /\ HasMonthWord(call.arg.s)
    /\ InMonthTable(MonthWord(call.arg.s))
    => call.out = Return(PyNone)

-----------------------------------------------------------------------------
\* the phone number stated for a string of digits, by its length
StatedPhone(digits) ==
    IF Len(digits) = 10 THEN PyStr(<<"+", "9", "1">> \o digits)
    ELSE IF Len(digits) = 11 /\ digits[1] = "0"
    THEN PyStr(<<"+", "9", "1">> \o SubSeq(digits, 2, 11))
    ELSE IF Len(digits) = 12 /\ SubSeq(digits, 1, 2) = <<"9", "1">>
    THEN PyStr(<<"+">> \o digits)
    ELSE IF Len(digits) = 13 /\ SubSeq(digits, 1, 2) # <<"9", "1">>
    THEN PyStr(<<"+", "9", "1">> \o SubSeq(digits, 4, 13))
    ELSE IF Len(digits) \in 10..15 THEN PyStr(<<"+">> \o digits)
    ELSE PyNone

\* C16: normalize_phone applies the numeric confusion correction, strips the
\* non-digits and decides by the number of digits: 10 digits give "+91" + digits,
\* 11 digits with a leading 0 give "+91" + the other ten, 12 digits starting with
\* 91 give "+" + digits, 13 digits not starting with 91 give "+91" + the last ten,
\* any other count from 10 to 15 gives "+" + digits, and fewer than 10 or more
\* than 15 digits give None.
C16_PhoneByDigitCount ==
    call.fn = "normalize_phone" /\ call.arg.t = "str" /\ call.arg.s # <<>> =>
        call.out = Return(StatedPhone(DigitsOf(ReplaceAll(call.arg.s, CONFUSION_MAP))))

\* C17: normalize_phone("09876543210") == "+9109876543210": an 11-digit number
\* with a leading zero keeps its eleven digits behind "+91".
C17_PhoneLeadingZero ==
    call.fn = "normalize_phone" /\ call.arg = PyStr(S_PhoneZero) =>
        call.out = Return(PyStr(<<"+", "9", "1">> \o S_PhoneZero))

\* exactly 5 uppercase letters, 4 digits, 1 uppercase letter
ExactPan(s) ==
    /\ Len(s) = 10
    /\ \A i \in {1, 2, 3, 4, 5, 10} : s[i] \in Range(UpperChars)
    /\ \A i \in 6..9 : IsDigitChar(s[i])

\* the stated cleaning of a raw PAN: alphanumeric correction, uppercasing, removal
\* of every character outside [A-Z0-9]
CleanedPan(s) == UpperAlnumOf(ReplaceAll(Upper(s), ConservativeCorrections))

\* C18: normalize_pan returns the cleaned string if and only if the whole cleaned
\* string is exactly 5 letters, 4 digits, 1 letter, and None for any deviation;
\* every result other than None is an exact PAN and passes the rule-6 test.
C18_PanExactOnly ==
    call.fn = "normalize_pan" /\ call.arg.t = "str" /\ call.arg.s # <<>> =>
        /\ call.out = Return(IF ExactPan(CleanedPan(call.arg.s))
                             THEN PyStr(CleanedPan(call.arg.s))
                             ELSE PyNone)
        /\ call.out.value # PyNone =>
               ExactPan(call.out.value.s) /\ ValidPan(call.out.value)

\* C19: normalize_pan("ab de 1234 f") == "ABDE1234F": spacing and case are
\* repaired and the cleaned string is returned.
C19_PanSpacingAndCase ==
    call.fn = "normalize_pan" /\ call.arg = PyStr(S_PanSpaced) =>
        call.out = Return(PyStr(<<"A", "B", "D", "E", "1", "2", "3", "4", "F">>))

\* C20: normalize_pan returns every canonical PAN (5 uppercase letters, 4 digits,
\* 1 uppercase letter) unchanged, the letters O and I included.
C20_PanCanonicalUnchanged ==
    call.fn = "normalize_pan" /\ call.arg.t = "str" /\ ExactPan(call.arg.s) =>
        call.out = Return(call.arg)

-----------------------------------------------------------------------------
\* C21: normalize_aadhaar applies the numeric correction, strips every non-digit
\* and returns the digit string if and only if it has exactly 12 digits,
\* otherwise None: "1234 5678 9012" gives "123456789012", a 12-digit value is
\* returned unchanged and "1234" gives None.
C21_AadhaarLengthGate ==
    call.fn = "normalize_aadhaar" /\ call.arg.t = "str" /\ call.arg.s # <<>> =>
        LET digits == DigitsOf(ReplaceAll(call.arg.s, CONFUSION_MAP))
        IN  call.out = Return(IF Len(digits) = 12 THEN PyStr(digits) ELSE PyNone)

-----------------------------------------------------------------------------
\* the substitution of one character under each hint
NumericSubstitute(c) ==
    CASE c \in {"O", "o"} -> <<"0">>
      [] c \in {"S", "s"} -> <<"5">>
      [] c \in {"I", "l"} -> <<"1">>
      [] c = "B" -> <<"8">>
      [] c = "Z" -> <<"2">>
      [] c = " " -> <<>>
      [] OTHER -> <<c>>

AlphaSubstitute(c) ==
    CASE c = "0" -> <<"O">>
      [] c = "5" -> <<"S">>
      [] c = "1" -> <<"I">>
      [] c = "8" -> <<"B">>
      [] c = "2" -> <<"Z">>
      [] OTHER -> <<c>>

ConservativeSubstitute(c) ==
    CASE c = "O" -> <<"0">>
      [] c \in {"l", "I"} -> <<"1">>
      [] OTHER -> <<c>>

\* the text with every character substituted as the hint fixes it
RECURSIVE Substituted(_, _)
Substituted(s, hint) ==
    IF s = <<>> THEN <<>>
    ELSE (IF hint = HintNumeric THEN NumericSubstitute(Head(s))
          ELSE IF hint = HintAlpha THEN AlphaSubstitute(Head(s))
          ELSE ConservativeSubstitute(Head(s)))
             \o Substituted(Tail(s), hint)

\* C22: correct_text(text, hint) is the character-by-character substitution fixed
\* by the hint (numeric: O,o to 0, S,s to 5, I,l to 1, B to 8, Z to 2, blanks
\* deleted; alpha: 0 to O, 5 to S, 1 to I, 8 to B, 2 to Z; alphanumeric or none:
\* O to 0, l to 1, I to 1) and changes no other character; None and the empty
\* string are returned unchanged.
C22_CorrectTextSubstitution ==
    call.fn = "correct_text" /\ call.arg.t \in {"none", "str"} =>
        call.out = Return(IF call.arg.t = "none" \/ call.arg.s = <<>>
                          THEN call.arg
                          ELSE PyStr(Substituted(call.arg.s, call.hint)))

\* "1234 5678 9012" under the numeric hint: the blanks are deleted
C22_Witness ==
    /\ call.fn = "correct_text"
    /\ call.hint = HintNumeric
    /\ call.arg = PyStr(S_AadhaarSpaced)
    /\ call.out = Return(PyStr(S_Aadhaar1))

-----------------------------------------------------------------------------
ConfusableLetters == {"O", "o", "S", "s", "I", "l", "B", "Z"}

ConfusableDigits == {"0", "5", "1", "8", "2"}

\* C23: for every text with at least one confusable letter and at least one
\* confusable digit, correct_text under the numeric hint and under the alpha hint
\* give different outputs; "I0S" gives "105" under numeric, and under alpha its
\* digit becomes a letter again ("IOS").
C23_CorrectionScoping ==
    call.fn = "correct_text" /\ call.arg.t = "str" =>
        /\ /\ Range(call.arg.s) \cap ConfusableLetters # {}
           /\ Range(call.arg.s) \cap ConfusableDigits # {}
           => /\ call.hint = HintNumeric =>
                     call.out.value # correct_text(call.arg, HintAlpha)
              /\ call.hint = HintAlpha =>
                     call.out.value # correct_text(call.arg, HintNumeric)
        /\ call.arg.s = S_I0S /\ call.hint = HintNumeric =>
               call.out.value = PyStr(<<"1", "0", "5">>)
        /\ call.arg.s = S_I0S /\ call.hint = HintAlpha =>
               call.out.value = PyStr(<<"I", "O", "S">>)

\* correct_text("I0S", "numeric") has returned "105"
C23_Witness ==
    /\ call.fn = "correct_text"
    /\ call.arg = PyStr(S_I0S)
    /\ call.hint = HintNumeric
    /\ call.out = Return(PyStr(<<"1", "0", "5">>))

\* the hint stated for a field name
StatedHint(field_name) ==
    IF field_name \in {"aadhaar_number", "phone_number", "account_number", "date_of_birth"}
    THEN HintNumeric
    ELSE IF field_name \in {"pan_number", "employee_id"} THEN HintAlphanumeric
    ELSE IF field_name \in {"full_name", "father_name"} THEN HintAlpha
    ELSE PyNone

\* the field entry has a value that is a non-empty string
HasStringValue(entry) ==
    /\ entry.t = "dict"
    /\ "value" \in DOMAIN entry.d
    /\ entry.d["value"].t = "str"
    /\ entry.d["value"].s # <<>>

\* C24: apply_confusion_corrections on a per-document field mapping replaces the
\* value of every field whose value is a non-empty string by correct_text(value,
\* hint), the hint chosen by the field name; values that are no string, None
\* values and the other keys of each field are unchanged, the set of field names
\* is preserved, and an argument that is no dict is returned unchanged without an
\* exception.
C24_PostProcessor ==
    call.fn = "apply_confusion_corrections" =>
        /\ call.out.exc = "none"
        /\ call.arg.t # "dict" => call.out.value = call.arg
        /\ call.arg.t = "dict" =>
               /\ call.out.value.t = "dict"
               /\ DOMAIN call.out.value.d = DOMAIN call.arg.d
               /\ \A f \in DOMAIN call.arg.d :
                      LET entry == call.arg.d[f]
                      IN  call.out.value.d[f] =
                              IF HasStringValue(entry)
                              THEN PyDict([k \in DOMAIN entry.d |->
                                              IF k = "value"
                                              THEN PyStr(Substituted(entry.d["value"].s,
                                                                     StatedHint(f)))
                                              ELSE entry.d[k]])
                              ELSE entry

\* the document with confusable values was corrected: the name's digits became
\* letters, its raw_context and the structured address stayed
C24_Witness ==
    /\ call.fn = "apply_confusion_corrections"
    /\ call.arg = ConfusableDocument
    /\ call.out.value.d["full_name"].d["value"]
           = PyStr(<<"J", "O", "h", "n", " ", "D", "O", "e">>)
    /\ call.out.value.d["full_name"].d["raw_context"] = PyStr(S_J0hnD0e)
    /\ call.out.value.d["address"].d["value"] = Addr1

-----------------------------------------------------------------------------
\* C25: every document-type entry placed in a person's extraction has all ten
\* field keys, each with an entry of its own (an absent field has the value None,
\* it is not left out), on every path of extract_entities and on the fallback of
\* process_person taken when the extraction raises; no exception of the
\* extraction leaves process_person.
C25_KeyPresence ==
    /\ pc # "raised"
    /\ \A doc \in DOMAIN extracted_data :
           /\ extracted_data[doc].t = "dict"
           /\ DOMAIN extracted_data[doc].d = FieldNames
           /\ \A f \in FieldNames : extracted_data[doc].d[f].t = "dict"
    /\ call.fn = "extract_entities" => call.doc_type \in DOMAIN extracted_data

-----------------------------------------------------------------------------
\* C26: every result of normalize_date other than None is a string YYYY-MM-DD
\* (four-digit year, two-digit month and day) that names a date of the calendar:
\* month 1..12 and day within the length of that month in that year, whichever
\* pattern and branch produced it.
C26_DateResultIsCalendarDate ==
    call.fn = "normalize_date" /\ call.out.value # PyNone =>
        /\ call.out.value.t = "str"
        /\ IsYmd(call.out.value.s)
        /\ CalendarValid(SubSeq(call.out.value.s, 1, 4), SubSeq(call.out.value.s, 6, 7),
                         SubSeq(call.out.value.s, 9, 10))

\* "15-Aug-47": the month-name branch with a two-digit year gave "2047-08-15"
C26_Witness ==
    /\ call.fn = "normalize_date"
    /\ call.arg = PyStr(S_DateAug47)
    /\ call.out = Return(PyStr(<<"2", "0", "4", "7", "-", "0", "8", "-", "1", "5">>))

-----------------------------------------------------------------------------
\* the employee id the claim states: the prefix token that is present (EMPLOYEE
\* before EMP) and the separators after it removed, the digit corrections
\* applied, the other characters dropped, None below two characters
StatedEmployeeId(s) ==
    LET stripped == StripEmployeePrefix(
                        << EmployeeIdPrefixes[4], EmployeeIdPrefixes[1],
                           EmployeeIdPrefixes[2], EmployeeIdPrefixes[3] >>,
                        Strip(Upper(s)))
        cleaned == SelectSeq(ReplaceAll(stripped, EmployeeIdCorrections), IsEmployeeIdChar)
    IN  IF Len(cleaned) >= 2 THEN PyStr(cleaned) ELSE PyNone

\* C27: normalize_employee_id removes a leading EMP, ID, STAFF or EMPLOYEE with
\* the separators after it before the digit corrections, so that "EMP-123",
\* "ID_123", "STAFF 123" and "EMPLOYEE-123" all give "123"; the result is
\* returned only when at least two characters remain, otherwise None.
C27_EmployeePrefixStripped ==
    call.fn = "normalize_employee_id" /\ call.arg.t = "str" /\ call.arg.s # <<>> =>
        /\ call.out = Return(StatedEmployeeId(call.arg.s))
        /\ call.arg.s \in {S_EmpDash, S_IdUnder, S_StaffSpace, S_EmployeeDash}
               => call.out = Return(PyStr(S_123))

-----------------------------------------------------------------------------
\* the position of the one "@" of an address, 0 when there is none or several
AtOf(s) ==
    IF Cardinality({i \in DOMAIN s : s[i] = "@"}) = 1
    THEN CHOOSE i \in DOMAIN s : s[i] = "@"
    ELSE 0

\* C28: every result of normalize_email other than None is lowercase, has exactly
\* one "@", no space and no two dots in a row (runs of dots of any length in the
\* input are collapsed), a local part of [a-z0-9._%+-]+ and a domain of
\* [a-z0-9.-]+\.[a-z]{2,}; normalize_email of the result is the result.
C28_EmailCanonical ==
    call.fn = "normalize_email" /\ call.out.value # PyNone =>
        LET e == call.out.value.s
        IN  /\ call.out.value.t = "str"
            /\ e = Lower(e)
            /\ AtOf(e) # 0
            /\ " " \notin Range(e)
            /\ \A i \in 1..(Len(e) - 1) : ~(e[i] = "." /\ e[i + 1] = ".")
            /\ IsEmailLocal(SubSeq(e, 1, AtOf(e) - 1))
            /\ IsEmailDomain(SubSeq(e, AtOf(e) + 1, Len(e)))
            /\ normalize_email(call.out.value) = call.out

-----------------------------------------------------------------------------
-----------------------------------------------------------------------------
\* C30: whenever rule 3 is PASS, at least two documents have a complete (city,
\* state, pincode) triple and those triples are equal; two address values of
\* which one or none has a complete triple do not give PASS.
C30_AddressPassNeedsTwoTriples ==
    Verified /\ StatusOf("rule_3_address_match") = "PASS" =>
        /\ Cardinality(CompleteAddressDocs) >= 2
        /\ Cardinality(CompleteTriples) = 1

====
